---- MODULE Spec2Model ----
(***************************************************************************)
(* Model of the entry resolver of seb (seb-lib/src/ast/entry) and of the   *)
(* bibliography built from a batch of resolvers (seb-lib/src/ast/biblio).  *)
(*                                                                         *)
(* Strings are sequences of one-character strings, so that to_lowercase    *)
(* and whitespace stripping are computed character by character.  A        *)
(* HashMap<String, QuotedString> is a function whose domain is the set of  *)
(* its keys; a Vec is a sequence.                                          *)
(***************************************************************************)
EXTENDS Integers, Sequences, FiniteSets, TLC

VARIABLES
    resolver,   \* the Resolver under construction (target, cite, req, fields)
    alive,      \* FALSE once resolve() has consumed the resolver
    key,        \* ResolverEntry.key of the live handle, or None
    entry,      \* the Entry produced by a successful resolve(), or None
    last,       \* the operation performed last, its arguments and its result
    snap,       \* the resolver as it was when next_required_entry() was called
    loop,       \* progress of user_resolve_entry
    stage,      \* what the caller of a batch holds: nothing yet ("start"), the
                \* BiblioResolver of a failed attempt ("Err"), a Biblio ("Ok")
    biblio_resolver,  \* the BiblioResolver (failed, resolvers, entries)
    biblio,     \* the Biblio (dirty, entries)
    blast,      \* the batch operation performed last, its arguments and result
    history,    \* of the batch: how it began, whether an attempt returned Err,
                \* whether checked_remove took a resolver since the last attempt,
                \* whether the Biblio was changed since the last dirty()
    text,       \* the BibTex string at hand (composed last, or handed to parse)
    parsed,     \* what BibTex::parse returned for it
    clast       \* the format operation performed last, its arguments and result

rvars == <<resolver, alive, key, entry, last, snap, loop>>
bvars == <<stage, biblio_resolver, biblio, blast, history>>
cvars == <<text, parsed, clast>>
vars == <<resolver, alive, key, entry, last, snap, loop,
          stage, biblio_resolver, biblio, blast, history,
          text, parsed, clast>>

----------------------------------------------------------------------------
(* Bounds *)

\* longest Vec<String> handed to add_required_fields
MaxAddLen == 2

\* longest Vec<Resolver> handed to Biblio::try_resolve, and longest Vec of
\* entries handed to Biblio::new
MaxBatch == 3

\* most entries of a Biblio handed to BibTex::compose
MaxComposed == 3

\* most chunks of a value handed to From<Chunks>
MaxChunks == 6

\* most characters of a text handed to new, quote and from_quoted
MaxQuoted == 4

\* most parts handed to from_parts
MaxParts == 3

\* most passes of the loop of user_resolve_biblio_resolver that are followed
MaxPasses == 3

----------------------------------------------------------------------------
(* Strings *)

\* names of fields, as the entries declare them and as callers spell them
FieldName ==
    [
      author        |-> <<"a","u","t","h","o","r">>,
      book_title    |-> <<"b","o","o","k","_","t","i","t","l","e">>,
      chapter       |-> <<"c","h","a","p","t","e","r">>,
      institution   |-> <<"i","n","s","t","i","t","u","t","i","o","n">>,
      journal       |-> <<"j","o","u","r","n","a","l">>,
      pages         |-> <<"p","a","g","e","s">>,
      publisher     |-> <<"p","u","b","l","i","s","h","e","r">>,
      school        |-> <<"s","c","h","o","o","l">>,
      title         |-> <<"t","i","t","l","e">>,
      year          |-> <<"y","e","a","r">>,
      Title         |-> <<"T","i","t","l","e">>,
      url           |-> <<"u","r","l">>,
      URL           |-> <<"U","R","L">>,
      tEsT          |-> <<"t","E","s","T">>,
      test          |-> <<"t","e","s","t">>,
      booktitle     |-> <<"b","o","o","k","t","i","t","l","e">>,
      month         |-> <<"m","o","n","t","h">>,
      date_added    |-> <<"d","a","t","e","_","a","d","d","e","d">> ]

\* names of entry types in the BibTeX format
TypeName ==
    [
      misc          |-> <<"m","i","s","c">>,
      article       |-> <<"a","r","t","i","c","l","e">>,
      book          |-> <<"b","o","o","k">>,
      booklet       |-> <<"b","o","o","k","l","e","t">>,
      inbook        |-> <<"i","n","b","o","o","k">>,
      incollection  |-> <<"i","n","c","o","l","l","e","c","t","i","o","n">>,
      inproceedings |-> <<"i","n","p","r","o","c","e","e","d","i","n","g","s">>,
      manual        |-> <<"m","a","n","u","a","l">>,
      masterthesis  |-> <<"m","a","s","t","e","r","t","h","e","s","i","s">>,
      mastersthesis |-> <<"m","a","s","t","e","r","s","t","h","e","s","i","s">>,
      phdthesis     |-> <<"p","h","d","t","h","e","s","i","s">>,
      proceedings   |-> <<"p","r","o","c","e","e","d","i","n","g","s">>,
      techreport    |-> <<"t","e","c","h","r","e","p","o","r","t">>,
      unpublished   |-> <<"u","n","p","u","b","l","i","s","h","e","d">>,
      suppbook      |-> <<"s","u","p","p","b","o","o","k">>,
      report        |-> <<"r","e","p","o","r","t">>,
      online        |-> <<"o","n","l","i","n","e">> ]

\* citation keys: k1 and K1 differ only in case; Unknown is the default of Resolver::cite
CiteKey ==
    [
      cite          |-> <<"k","1">>,
      K1            |-> <<"K","1">>,
      k2            |-> <<"k","2">>,
      Unknown       |-> <<"U","n","k","n","o","w","n">> ]


Range(s) == { s[i] : i \in DOMAIN s }

\* char::to_lowercase restricted to the ASCII letters
LowerChar(c) ==
    CASE c = "A" -> "a" [] c = "B" -> "b" [] c = "C" -> "c" [] c = "D" -> "d"
      [] c = "E" -> "e" [] c = "F" -> "f" [] c = "G" -> "g" [] c = "H" -> "h"
      [] c = "I" -> "i" [] c = "J" -> "j" [] c = "K" -> "k" [] c = "L" -> "l"
      [] c = "M" -> "m" [] c = "N" -> "n" [] c = "O" -> "o" [] c = "P" -> "p"
      [] c = "Q" -> "q" [] c = "R" -> "r" [] c = "S" -> "s" [] c = "T" -> "t"
      [] c = "U" -> "u" [] c = "V" -> "v" [] c = "W" -> "w" [] c = "X" -> "x"
      [] c = "Y" -> "y" [] c = "Z" -> "z" [] OTHER -> c

\* str::to_lowercase
to_lowercase(s) == [ i \in DOMAIN s |-> LowerChar(s[i]) ]

\* char::is_whitespace restricted to ASCII
is_whitespace(c) == c \in {" ", "\t", "\n", "\r"}

----------------------------------------------------------------------------
(* Option and HashMap *)

None == [some |-> FALSE, val |-> <<>>]
Some(v) == [some |-> TRUE, val |-> v]

EmptyMap == [ k \in {} |-> <<>> ]

\* HashMap::insert
MapInsert(m, k, v) == [ x \in (DOMAIN m) \cup {k} |-> IF x = k THEN v ELSE m[x] ]

----------------------------------------------------------------------------
(* EntryKind *)

Kind(tag) == [tag |-> tag, name |-> <<>>]
KindOther(name) == [tag |-> "Other", name |-> name]

\* EntryKind::required_fields
required_fields(kind) ==
    CASE kind.tag = "Article"       -> <<FieldName.author, FieldName.title, FieldName.journal, FieldName.year>>
      [] kind.tag = "Book"          -> <<FieldName.author, FieldName.title, FieldName.publisher, FieldName.year>>
      [] kind.tag = "Booklet"       -> <<FieldName.title>>
      [] kind.tag = "BookChapter"   -> <<FieldName.author, FieldName.title, FieldName.chapter, FieldName.publisher, FieldName.year>>
      [] kind.tag = "BookPages"     -> <<FieldName.author, FieldName.title, FieldName.pages, FieldName.publisher, FieldName.year>>
      [] kind.tag = "BookSection"   -> <<FieldName.author, FieldName.title, FieldName.book_title, FieldName.publisher, FieldName.year>>
      [] kind.tag = "InProceedings" -> <<FieldName.author, FieldName.title, FieldName.book_title, FieldName.year>>
      [] kind.tag = "Manual"        -> <<FieldName.title>>
      [] kind.tag = "MasterThesis"  -> <<FieldName.author, FieldName.title, FieldName.school, FieldName.year>>
      [] kind.tag = "PhdThesis"     -> <<FieldName.author, FieldName.title, FieldName.school, FieldName.year>>
      [] kind.tag = "Proceedings"   -> <<FieldName.title, FieldName.year>>
      [] kind.tag = "TechReport"    -> <<FieldName.author, FieldName.title, FieldName.institution, FieldName.year>>
      [] kind.tag = "Unpublished"   -> <<FieldName.author, FieldName.title>>
      [] kind.tag = "Other"         -> <<FieldName.title>>

----------------------------------------------------------------------------
(* Resolver *)

\* Resolver::new and Other::resolver / Other::resolver_with_cite
new(kind, cite) ==
    [target |-> kind, cite |-> cite, req |-> required_fields(kind), fields |-> EmptyMap]

\* what is left of a resolver that resolve() has moved out of
Moved == [target |-> Kind("moved"), cite |-> None, req |-> <<>>, fields |-> EmptyMap]

\* String::retain(|c| !c.is_whitespace())
RetainNonWhitespace(s) == SelectSeq(s, LAMBDA c : ~is_whitespace(c))

\* cite() that keeps the whitespace of the author field
cite_keeps_whitespace(r) ==
    IF r.cite.some
    THEN r.cite.val
    ELSE (IF FieldName.author \in DOMAIN r.fields THEN r.fields[FieldName.author] ELSE CiteKey.Unknown)
         \o (IF FieldName.year \in DOMAIN r.fields THEN r.fields[FieldName.year] ELSE FieldName.year)

\* Resolver::cite
cite(r) ==
    IF r.cite.some
    THEN r.cite.val
    ELSE LET author == IF FieldName.author \in DOMAIN r.fields
                       THEN RetainNonWhitespace(r.fields[FieldName.author])
                       ELSE CiteKey.Unknown
             year   == IF FieldName.year \in DOMAIN r.fields
                       THEN r.fields[FieldName.year]
                       ELSE FieldName.year
         IN  author \o year

\* the per-kind `resolve` function generated by entry_impl!, and Other::resolve:
\* every required field is taken out of the map with remove(..).unwrap()
entry_resolve(r) ==
    LET names == Range(required_fields(r.target)) IN
    IF names \subseteq DOMAIN r.fields
    THEN [panic    |-> FALSE,
          entry    |-> [kind     |-> r.target,
                        cite     |-> cite(r),
                        required |-> [ n \in names |-> r.fields[n] ],
                        optional |-> [ n \in (DOMAIN r.fields) \ names |-> r.fields[n] ]]]
    ELSE [panic |-> TRUE, entry |-> None]

\* find_field / FieldQuery::get_field of a finished entry: the name is
\* lowercased, matched against the names the kind requires, and otherwise
\* looked up as it is in the optional map
find_field(e, name) ==
    LET normal_name == to_lowercase(name) IN
    IF normal_name \in Range(required_fields(e.kind))
    THEN Some(e.required[normal_name])
    ELSE IF normal_name \in DOMAIN e.optional
    THEN Some(e.optional[normal_name])
    ELSE None

\* FieldQuery::get_field of a finished entry: the same lookup
get_field(e, name) == find_field(e, name)

\* resolve() that looks for the kind's own fields instead of at `req`
resolve_checks_kind_only(r) ==
    IF Range(required_fields(r.target)) \subseteq DOMAIN r.fields
    THEN [tag |-> "Ok", entry |-> Some(entry_resolve(r).entry), resolver |-> Moved]
    ELSE [tag |-> "Err", entry |-> None, resolver |-> r]

\* resolve() that hands back a fresh resolver instead of `self`
resolve_err_fresh(r) ==
    IF r.req = <<>>
    THEN [tag |-> "Ok", entry |-> Some(entry_resolve(r).entry), resolver |-> Moved]
    ELSE [tag |-> "Err", entry |-> None,
          resolver |-> [r EXCEPT !.fields = EmptyMap]]

\* Resolver::resolve
resolve(r) ==
    IF r.req = <<>>
    THEN LET built == entry_resolve(r) IN
         IF built.panic
         THEN [tag |-> "Panic", entry |-> None, resolver |-> Moved]
         ELSE [tag |-> "Ok", entry |-> Some(built.entry), resolver |-> Moved]
    ELSE [tag |-> "Err", entry |-> None, resolver |-> r]

\* set_normalized_field that pushes the name onto `req` instead of removing it
set_normalized_field_push(r, name, value) ==
    [r EXCEPT !.req    = IF \E i \in DOMAIN r.req : r.req[i] = name
                         THEN r.req ELSE Append(r.req, name),
              !.fields = MapInsert(r.fields, name, value)]

\* Resolver::set_normalized_field
set_normalized_field(r, name, value) ==
    [r EXCEPT !.req    = SelectSeq(r.req, LAMBDA q : q # name),
              !.fields = MapInsert(r.fields, name, value)]

\* set_field without the to_lowercase
set_field_verbatim(r, name, value) == set_normalized_field(r, name, value)

\* Resolver::set_field
set_field(r, name, value) == set_normalized_field(r, to_lowercase(name), value)

\* the typed setters generated by impl_resolver!
TypedSetterNames ==
    { FieldName.author, FieldName.book_title, FieldName.chapter, FieldName.institution, FieldName.journal,
      FieldName.pages, FieldName.publisher, FieldName.school, FieldName.title, FieldName.year }

typed_setter(r, field, value) == set_normalized_field(r, field, value)

\* Vec::contains
Contains(s, x) == \E i \in DOMAIN s : s[i] = x

\* the push loop without the `contains` test
PushAll(req, new_fields) == req \o new_fields

\* Resolver::add_required_fields
RECURSIVE PushNew(_, _)
PushNew(req, new_fields) ==
    IF new_fields = <<>>
    THEN req
    ELSE LET field == Head(new_fields) IN
         PushNew(IF ~Contains(req, field) THEN Append(req, field) ELSE req,
                 Tail(new_fields))

\* add_required_fields without the filter on the fields already set
add_required_fields_unfiltered(r, fields) ==
    [r EXCEPT !.req = PushNew(r.req, fields)]

add_required_fields(r, fields) ==
    LET new_fields == SelectSeq(fields, LAMBDA field : field \notin DOMAIN r.fields)
    IN  [r EXCEPT !.req = PushNew(r.req, new_fields)]

\* Entry::fields: the required fields in declaration order, then the optional
\* map in the iteration order `order` of the HashMap
entry_fields(e, order) ==
    LET req == required_fields(e.kind) IN
    [ i \in 1..Len(req) |-> [name |-> req[i], value |-> e.required[req[i]]] ]
    \o [ i \in 1..Len(order) |-> [name |-> order[i], value |-> e.optional[order[i]]] ]

\* the iteration orders a HashMap with these keys can have
Orders(keys) ==
    { o \in [1..Cardinality(keys) -> keys] : Range(o) = keys }

\* set_fields_from_entry that goes through set_field and so lowercases the names
RECURSIVE set_fields_from_entry_lowercased(_, _)
set_fields_from_entry_lowercased(r, fields) ==
    IF fields = <<>>
    THEN r
    ELSE set_fields_from_entry_lowercased(
             set_field(r, Head(fields).name, Head(fields).value),
             Tail(fields))

\* Resolver::set_fields_from_entry
RECURSIVE set_fields_from_entry(_, _)
set_fields_from_entry(r, fields) ==
    IF fields = <<>>
    THEN r
    ELSE set_fields_from_entry(
             set_normalized_field(r, Head(fields).name, Head(fields).value),
             Tail(fields))

\* Resolver::next_required_entry: Vec::pop, then Resolver::entry
next_required_entry(r) ==
    IF r.req = <<>>
    THEN [key |-> None, resolver |-> r]
    ELSE [key      |-> Some(r.req[Len(r.req)]),
          resolver |-> [r EXCEPT !.req = SubSeq(r.req, 1, Len(r.req) - 1)]]

\* a Drop that never gives the key back
drop_forgets(r, k) == r

\* Drop for ResolverEntry
drop(r, k) ==
    IF k.some THEN [r EXCEPT !.req = Append(r.req, k.val)] ELSE r

\* insert that clones the key instead of taking it, so that the drop of the
\* handle pushes it back
insert_keeps_key(r, k, value) ==
    drop([r EXCEPT !.fields = MapInsert(r.fields, k.val, value)], k)

\* insert that takes the key out of the handle and stores nothing
insert_stores_nothing(r, k, value) == drop(r, None)

\* ResolverEntry::insert: the key is taken out of the handle, the value stored
\* under it, and the handle, now without a key, is dropped
insert(r, k, value) ==
    drop([r EXCEPT !.fields = MapInsert(r.fields, k.val, value)], None)

\* a user_resolve_entry that takes one handle and lets it go without a value
user_resolve_entry_drops(r, value) ==
    LET res == next_required_entry(r) IN drop(res.resolver, res.key)

\* user_resolve_entry when every prompt returns Ok(value): the resolver after
\* the loop `while let Some(field_entry) = resolver.next_required_entry()`
RECURSIVE user_resolve_entry(_, _)
user_resolve_entry(r, value) ==
    LET res == next_required_entry(r) IN
    IF res.key.some
    THEN user_resolve_entry(insert(res.resolver, res.key, value), value)
    ELSE r

----------------------------------------------------------------------------
(* Biblio and BiblioResolver (seb-lib/src/ast/biblio)                      *)
(* A BiblioResolver is [failed, resolvers, entries]; a Biblio is           *)
(* [dirty, entries], its entries a function from citation key to entry.    *)

\* Vec::remove(index): index counts from 0
RemoveAt(s, index) == SubSeq(s, 1, index) \o SubSeq(s, index + 2, Len(s))

\* a collect that stores every entry under its citation key in lower case
collect_lowercase_keys(entries) ==
    [ c \in { to_lowercase(entries[i].cite) : i \in DOMAIN entries } |->
        entries[CHOOSE i \in DOMAIN entries :
                    /\ to_lowercase(entries[i].cite) = c
                    /\ \A j \in DOMAIN entries :
                          j > i => to_lowercase(entries[j].cite) # c] ]

\* a collect() that keeps the first of the entries with one citation key
collect_keeps_first(entries) ==
    [ c \in { entries[i].cite : i \in DOMAIN entries } |->
        entries[CHOOSE i \in DOMAIN entries :
                    /\ entries[i].cite = c
                    /\ \A j \in DOMAIN entries : j < i => entries[j].cite # c] ]

\* .map(|e| (e.cite().into_owned(), e)).collect() into a HashMap: of two
\* entries with the same citation key the later one stays
collect(entries) ==
    [ c \in { entries[i].cite : i \in DOMAIN entries } |->
        entries[CHOOSE i \in DOMAIN entries :
                    /\ entries[i].cite = c
                    /\ \A j \in DOMAIN entries : j > i => entries[j].cite # c] ]

\* a try_partition that keeps the Err items only
try_partition_drops_built(results) ==
    LET errs == SelectSeq(results, LAMBDA res : res.tag = "Err")
    IN  [left  |-> <<>>,
         right |-> [ i \in DOMAIN errs |-> errs[i].resolver ]]

\* try_partition over the results of Resolver::resolve: the entries of the
\* Ok results and the resolvers of the Err results, each in iteration order
try_partition(results) ==
    LET oks  == SelectSeq(results, LAMBDA res : res.tag = "Ok")
        errs == SelectSeq(results, LAMBDA res : res.tag = "Err")
    IN  [left  |-> [ i \in DOMAIN oks  |-> oks[i].entry.val ],
         right |-> [ i \in DOMAIN errs |-> errs[i].resolver ]]

NoBiblio == [dirty |-> FALSE, entries |-> EmptyMap]
NoBiblioResolver == [failed |-> FALSE, resolvers |-> <<>>, entries |-> <<>>]

\* a resolve that returns Err(self) even when no resolver is left
BiblioResolver_resolve_never_collapses(self) ==
    LET results   == [ i \in DOMAIN self.resolvers |-> resolve(self.resolvers[i]) ]
        parts     == try_partition(results)
    IN  [tag      |-> "Err",
         biblio   |-> NoBiblio,
         resolver |-> [failed    |-> TRUE,
                       resolvers |-> parts.right,
                       entries   |-> self.entries \o parts.left]]

\* a resolve that puts the newly built entries in front of the finished ones
BiblioResolver_resolve_prepends(self) ==
    LET results   == [ i \in DOMAIN self.resolvers |-> resolve(self.resolvers[i]) ]
        parts     == try_partition(results)
        entries   == parts.left \o self.entries
    IN  IF parts.right = <<>>
        THEN [tag      |-> "Ok",
              biblio   |-> [dirty |-> self.failed, entries |-> collect(entries)],
              resolver |-> NoBiblioResolver]
        ELSE [tag      |-> "Err",
              biblio   |-> NoBiblio,
              resolver |-> [failed    |-> TRUE,
                            resolvers |-> parts.right,
                            entries   |-> entries]]

\* a resolve that hands the outstanding resolvers back in reverse order
BiblioResolver_resolve_reverses(self) ==
    LET results   == [ i \in DOMAIN self.resolvers |-> resolve(self.resolvers[i]) ]
        parts     == try_partition(results)
        entries   == self.entries \o parts.left
        n         == Len(parts.right)
    IN  IF parts.right = <<>>
        THEN [tag      |-> "Ok",
              biblio   |-> [dirty |-> self.failed, entries |-> collect(entries)],
              resolver |-> NoBiblioResolver]
        ELSE [tag      |-> "Err",
              biblio   |-> NoBiblio,
              resolver |-> [failed    |-> TRUE,
                            resolvers |-> [ i \in 1..n |-> parts.right[n + 1 - i] ],
                            entries   |-> entries]]

\* BiblioResolver::resolve; a panic of one Resolver::resolve unwinds through it
BiblioResolver_resolve(self) ==
    LET results   == [ i \in DOMAIN self.resolvers |-> resolve(self.resolvers[i]) ]
        parts     == try_partition(results)
        entries   == self.entries \o parts.left
    IN  IF \E i \in DOMAIN results : results[i].tag = "Panic"
        THEN [tag |-> "Panic", biblio |-> NoBiblio, resolver |-> NoBiblioResolver]
        ELSE IF parts.right = <<>>
        THEN [tag      |-> "Ok",
              biblio   |-> [dirty |-> self.failed, entries |-> collect(entries)],
              resolver |-> NoBiblioResolver]
        ELSE [tag      |-> "Err",
              biblio   |-> NoBiblio,
              resolver |-> [failed    |-> TRUE,
                            resolvers |-> parts.right,
                            entries   |-> entries]]

\* a try_resolve that starts with the failed flag set
Biblio_try_resolve_failed(resolvers) ==
    BiblioResolver_resolve([failed |-> TRUE, resolvers |-> resolvers, entries |-> <<>>])

\* Biblio::try_resolve
Biblio_try_resolve(resolvers) ==
    BiblioResolver_resolve([failed |-> FALSE, resolvers |-> resolvers, entries |-> <<>>])

\* a checked_remove that numbers the outstanding resolvers first
BiblioResolver_checked_remove_resolvers_first(self, index) ==
    IF index < Len(self.resolvers)
    THEN [tag  |-> "Err",
          item |-> self.resolvers[index + 1],
          self |-> [self EXCEPT !.resolvers = RemoveAt(self.resolvers, index)]]
    ELSE IF index - Len(self.resolvers) < Len(self.entries)
    THEN [tag  |-> "Ok",
          item |-> self.entries[index - Len(self.resolvers) + 1],
          self |-> [self EXCEPT !.entries =
                                    RemoveAt(self.entries, index - Len(self.resolvers))]]
    ELSE [tag |-> "None", item |-> None, self |-> self]

\* BiblioResolver::checked_remove: the Option<Result<entry, resolver>> it
\* returns (tag None, Ok or Err, and the removed item) and the resolver after
BiblioResolver_checked_remove(self, index) ==
    IF index < Len(self.entries)
    THEN [tag  |-> "Ok",
          item |-> self.entries[index + 1],
          self |-> [self EXCEPT !.entries = RemoveAt(self.entries, index)]]
    ELSE IF index - Len(self.entries) < Len(self.resolvers)
    THEN [tag  |-> "Err",
          item |-> self.resolvers[index - Len(self.entries) + 1],
          self |-> [self EXCEPT !.resolvers =
                                    RemoveAt(self.resolvers, index - Len(self.entries))]]
    ELSE [tag |-> "None", item |-> None, self |-> self]

\* an iter() that yields the outstanding resolvers before the entries
BiblioResolver_iter_resolvers_first(self) == self.resolvers \o self.entries

\* BiblioResolver::iter: the items it yields, each seen through EntryExt, the
\* entries chained with the resolvers
BiblioResolver_iter(self) == self.entries \o self.resolvers

\* Biblio::new
Biblio_new(entries) == [dirty |-> FALSE, entries |-> collect(entries)]

\* a dirty() that reads the flag and leaves it set
Biblio_dirty_peek(self) == [dirty |-> self.dirty, self |-> self]

\* Biblio::dirty: the flag it returns and the Biblio after
Biblio_dirty(self) == [dirty |-> self.dirty, self |-> [self EXCEPT !.dirty = FALSE]]

\* an insert that keeps the entry already stored under the key
Biblio_insert_if_absent(self, e) ==
    [dirty   |-> TRUE,
     entries |-> IF e.cite \in DOMAIN self.entries
                 THEN self.entries
                 ELSE MapInsert(self.entries, e.cite, e)]

\* Biblio::insert
Biblio_insert(self, e) ==
    [dirty |-> TRUE, entries |-> MapInsert(self.entries, e.cite, e)]

\* a remove that compares the keys as they are
Biblio_remove_exact(self, c) ==
    LET kept    == { k \in DOMAIN self.entries : k # c }
        removed == kept # DOMAIN self.entries
    IN  [removed |-> removed,
         self    |-> [dirty   |-> self.dirty \/ removed,
                      entries |-> [ k \in kept |-> self.entries[k] ]]]

\* Biblio::remove: the flag it returns and the Biblio after
Biblio_remove(self, c) ==
    LET kept    == { k \in DOMAIN self.entries : to_lowercase(k) # to_lowercase(c) }
        removed == kept # DOMAIN self.entries
    IN  [removed |-> removed,
         self    |-> [dirty   |-> self.dirty \/ removed,
                      entries |-> [ k \in kept |-> self.entries[k] ]]]

\* Biblio::contains_field; a predicate is the set of values it accepts
Biblio_contains_field(self, k, predicate) ==
    \E c \in DOMAIN self.entries :
        LET f == get_field(self.entries[c], k) IN
        IF f.some THEN f.val \in predicate ELSE FALSE

----------------------------------------------------------------------------
(* QuotedString (ast/quoted_string.rs): [markers, value]. The fields of a   *)
(* resolver and of an entry hold the text of their values; a text v there   *)
(* stands for QuotedString::new(v).                                         *)

\* char::len_utf8 for the characters of the texts: 'ß' takes two bytes
len_utf8(c) == IF c = "ß" THEN 2 ELSE 1

\* str::len: the length in bytes
RECURSIVE len(_)
len(s) == IF s = <<>> THEN 0 ELSE len_utf8(Head(s)) + len(Tail(s))

\* str::is_char_boundary
is_char_boundary(s, index) == \E k \in 0..Len(s) : len(SubSeq(s, 1, k)) = index

\* the outcome of an operation that panics
Panic == <<"panic">>

\* &s[from..to] with byte offsets: panics when from > to, when an offset is
\* past the end or when it is inside a character
slice(s, from, to) ==
    IF from <= to /\ is_char_boundary(s, from) /\ is_char_boundary(s, to)
    THEN LET chars(index) == CHOOSE k \in 0..Len(s) : len(SubSeq(s, 1, k)) = index
         IN  SubSeq(s, chars(from) + 1, chars(to))
    ELSE Panic

\* QuotedString::new
QuotedString_new(value) == [markers |-> <<>>, value |-> value]

\* QuotedString::quote
quote(value) == [markers |-> <<0, len(value)>>, value |-> value]

\* EscapePattern::is_escape; a pattern is the set of characters it matches
is_escape(pattern, c) == c \in pattern

\* the loop of from_quoted over the characters from `quoted` on
RECURSIVE from_quoted_loop(_, _, _, _, _)
from_quoted_loop(quoted, pattern, i, markers, value) ==
    IF quoted = <<>>
    THEN [markers |-> markers, value |-> value]
    ELSE IF is_escape(pattern, Head(quoted))
    THEN from_quoted_loop(Tail(quoted), pattern, i, markers \o <<i>>, value)
    ELSE from_quoted_loop(Tail(quoted), pattern, i + 1, markers,
                          value \o <<Head(quoted)>>)

\* QuotedString::from_quoted
from_quoted(quoted, pattern) == from_quoted_loop(quoted, pattern, 0, <<>>, <<>>)

\* QuotedString::from_parts over (bool, String) pairs [verbatim, text]
RECURSIVE from_parts_fold(_, _, _, _)
from_parts_fold(parts, length, markers, value) ==
    IF parts = <<>>
    THEN [markers |-> markers, value |-> value]
    ELSE LET s       == Head(parts).text
             new_len == length + len(s)
         IN  from_parts_fold(Tail(parts), new_len,
                             IF Head(parts).verbatim
                             THEN markers \o <<length, new_len>>
                             ELSE markers,
                             value \o s)

from_parts(parts) == from_parts_fold(parts, 0, <<>>, <<>>)

\* #[derive(PartialEq)] on QuotedString: every field is compared
QuotedString_eq(a, b) == a.markers = b.markers /\ a.value = b.value

\* bibtex_esc: format!("{{{s}}}")
bibtex_esc(s) == <<"{">> \o s \o <<"}">>

\* f(s) for the closures handed to map_quoted: bibtex_esc (|s| format!("{{{s}}}"))
\* and |_| "new".to_owned()
call(f, s) ==
    CASE f = "bibtex_esc" -> bibtex_esc(s)
      [] f = "new"        -> <<"n", "e", "w">>

\* the loop of map_quoted(f) over the markers from `markers` on, and the
\* statements after it
RECURSIVE map_quoted_loop(_, _, _, _, _, _)

\* a map_quoted that leaves out what follows the last marker
map_quoted_loop_without_rest(value, markers, verbatim, pos, res, f) ==
    IF markers = <<>>
    THEN res
    ELSE LET marker == Head(markers)
             span   == slice(value, pos, marker)
         IN  IF span = Panic THEN Panic
             ELSE map_quoted_loop(value, Tail(markers), ~verbatim, marker,
                                  res \o (IF verbatim THEN call(f, span) ELSE span), f)

map_quoted_loop(value, markers, verbatim, pos, res, f) ==
    IF markers = <<>>
    THEN IF pos < len(value)
         THEN LET span == slice(value, pos, len(value)) IN
              IF span = Panic THEN Panic
              ELSE res \o (IF verbatim THEN call(f, span) ELSE span)
         ELSE res
    ELSE LET marker == Head(markers)
             span   == slice(value, pos, marker)
         IN  IF span = Panic THEN Panic
             ELSE map_quoted_loop(value, Tail(markers), ~verbatim, marker,
                                  res \o (IF verbatim THEN call(f, span) ELSE span), f)

\* QuotedString::map_quoted(f)
map_quoted(qs, f) ==
    IF qs.value = <<>> THEN <<>> ELSE map_quoted_loop(qs.value, qs.markers, FALSE, 0, <<>>, f)

----------------------------------------------------------------------------
(* The BibTeX format (seb-lib/src/format/bibtex.rs). A text is a sequence   *)
(* of characters; a chunk of a parsed value is [verbatim, text].            *)

Normal(s) == [verbatim |-> FALSE, text |-> s]
Verbatim(s) == [verbatim |-> TRUE, text |-> s]

\* verbatim_str.chars().last().map(|c| c == '/').unwrap_or_default()
ends_with_escape(s) == IF s = <<>> THEN FALSE ELSE s[Len(s)] = "/"

RECURSIVE merge_escaped(_, _, _)
RECURSIVE verbatim_chunk_merge(_, _)

\* a merge_escaped that returns after the verbatim chunk of the first pair
merge_escaped_one_pair(dest, chunks, normal_count) ==
    IF chunks = <<>>
    THEN [dest |-> dest, chunks |-> <<>>]
    ELSE IF ~Head(chunks).verbatim
    THEN merge_escaped(dest \o Head(chunks).text, Tail(chunks), normal_count + 1)
    ELSE LET m == verbatim_chunk_merge(Head(chunks).text, Tail(chunks)) IN
         IF normal_count = 1
         THEN [dest |-> dest \o m.dest, chunks |-> m.chunks]
         ELSE merge_escaped(dest \o m.dest, m.chunks, normal_count)

\* a merge_escaped that takes the Normal chunks without pushing their text
merge_escaped_without_normal(dest, chunks, normal_count) ==
    IF chunks = <<>>
    THEN [dest |-> dest, chunks |-> <<>>]
    ELSE IF ~Head(chunks).verbatim
    THEN merge_escaped(dest, Tail(chunks), normal_count + 1)
    ELSE LET m == verbatim_chunk_merge(Head(chunks).text, Tail(chunks)) IN
         IF normal_count = 2
         THEN [dest |-> dest \o m.dest, chunks |-> m.chunks]
         ELSE merge_escaped(dest \o m.dest, m.chunks, normal_count)

\* merge_escaped: `dest` after the loop and the chunks left in the iterator;
\* normal_count is the local counter, 0 at the call
merge_escaped(dest, chunks, normal_count) ==
    IF chunks = <<>>
    THEN [dest |-> dest, chunks |-> <<>>]
    ELSE IF ~Head(chunks).verbatim
    THEN merge_escaped(dest \o Head(chunks).text, Tail(chunks), normal_count + 1)
    ELSE LET m == verbatim_chunk_merge(Head(chunks).text, Tail(chunks)) IN
         IF normal_count = 2
         THEN [dest |-> dest \o m.dest, chunks |-> m.chunks]
         ELSE merge_escaped(dest \o m.dest, m.chunks, normal_count)

\* verbatim_chunk_merge: the string after the call and the chunks left
verbatim_chunk_merge(verbatim_str, chunks) ==
    IF ends_with_escape(verbatim_str)
    THEN merge_escaped(verbatim_str, chunks, 0)
    ELSE [dest |-> verbatim_str, chunks |-> chunks]

\* the loop of From<biblatex::Chunks> for QuotedString: the parts it pushes
RECURSIVE chunk_parts(_)
chunk_parts(chunks) ==
    IF chunks = <<>>
    THEN <<>>
    ELSE IF Head(chunks).verbatim
    THEN LET m == verbatim_chunk_merge(Head(chunks).text, Tail(chunks)) IN
         <<Verbatim(m.dest)>> \o chunk_parts(m.chunks)
    ELSE <<Normal(Head(chunks).text)>> \o chunk_parts(Tail(chunks))

\* From<biblatex::Chunks> for QuotedString
QuotedString_from(chunks) == from_parts(chunk_parts(chunks))

\* the characters of the texts in the order of their codes
CharOrder ==
    <<"\n", " ", "%", ",", "0", "1", "2", "3", "4", "5", "6", "7", "8", "9", "=", "@",
      "A", "B", "C", "D", "E", "F", "G", "H", "I", "J", "K", "L", "M",
      "N", "O", "P", "Q", "R", "S", "T", "U", "V", "W", "X", "Y", "Z", "_",
      "a", "b", "c", "d", "e", "f", "g", "h", "i", "j", "k", "l", "m",
      "n", "o", "p", "q", "r", "s", "t", "u", "v", "w", "x", "y", "z", "{", "}">>

CharCode(c) == CHOOSE n \in DOMAIN CharOrder : CharOrder[n] = c

\* a < b for &str: bytewise, a proper prefix first
RECURSIVE StrLess(_, _)
StrLess(a, b) ==
    IF b = <<>> THEN FALSE
    ELSE IF a = <<>> THEN TRUE
    ELSE IF Head(a) = Head(b) THEN StrLess(Tail(a), Tail(b))
    ELSE CharCode(Head(a)) < CharCode(Head(b))

\* the keys as Vec::sort_by_key leaves them
SortedKeys(keys) ==
    CHOOSE o \in [1..Cardinality(keys) -> keys] :
        /\ Range(o) = keys
        /\ \A i, j \in DOMAIN o : i < j => StrLess(o[i], o[j])

\* compose_variant
compose_variant(e) ==
    CASE e.kind.tag = "Article"       -> TypeName.article
      [] e.kind.tag = "Book"          -> TypeName.book
      [] e.kind.tag = "Booklet"       -> TypeName.booklet
      [] e.kind.tag = "BookChapter"   -> TypeName.inbook
      [] e.kind.tag = "BookPages"     -> TypeName.inbook
      [] e.kind.tag = "BookSection"   -> TypeName.incollection
      [] e.kind.tag = "InProceedings" -> TypeName.inproceedings
      [] e.kind.tag = "Manual"        -> TypeName.manual
      [] e.kind.tag = "MasterThesis"  -> TypeName.masterthesis
      [] e.kind.tag = "PhdThesis"     -> TypeName.phdthesis
      [] e.kind.tag = "Other"         -> e.kind.name
      [] e.kind.tag = "Proceedings"   -> TypeName.proceedings
      [] e.kind.tag = "TechReport"    -> TypeName.techreport
      [] e.kind.tag = "Unpublished"   -> TypeName.unpublished

\* str::replace('_', "")
replace_underscore(name) == SelectSeq(name, LAMBDA c : c # "_")

\* to_short_month for a value that is no number: the first three characters
to_short_month(month) ==
    <<"m","o","n","t","h"," ","="," ">> \o to_lowercase(SubSeq(month, 1, 3))

\* compose_field
compose_field(field) ==
    LET name == replace_underscore(field.name) IN
    IF name = FieldName.month
    THEN to_short_month(field.value)
    ELSE name \o <<" ", "=", " ", "{">> \o map_quoted(QuotedString_new(field.value), "bibtex_esc")
              \o <<"}">>

\* compose_fields: format!("    {field},\n") for each field
RECURSIVE compose_fields(_)
compose_fields(fields) ==
    IF fields = <<>>
    THEN <<>>
    ELSE <<" ", " ", " ", " ">> \o compose_field(Head(fields)) \o <<",", "\n">>
         \o compose_fields(Tail(fields))

\* BibTex::compose_entry; `order` is the iteration order of the optional map
compose_entry(e, order) ==
    <<"@">> \o compose_variant(e) \o <<"{">> \o e.cite \o <<",", "\n">>
    \o compose_fields(entry_fields(e, order)) \o <<"}", "\n">>

\* the for_each of compose: the map after the (kind, entry) pairs were visited
RECURSIVE compose_for_each(_, _)
compose_for_each(map, pairs) ==
    IF pairs = <<>>
    THEN map
    ELSE LET kind == Head(pairs).kind
             e    == Head(pairs).entry
         IN  compose_for_each(
                 IF kind \in DOMAIN map
                 THEN [map EXCEPT ![kind] = @ \o e]
                 ELSE MapInsert(map, kind, <<"%", " ">> \o kind \o <<"\n">> \o e \o <<"\n">>),
                 Tail(pairs))

RECURSIVE Concat(_)
Concat(seqs) == IF seqs = <<>> THEN <<>> ELSE Head(seqs) \o Concat(Tail(seqs))

\* BibTex::compose; `visit` is the order in which entries() yields the keys,
\* orders[c] the iteration order of the optional map of the entry under c
compose(b, visit, orders) ==
    LET pairs  == [ i \in DOMAIN visit |->
                      [kind  |-> compose_variant(b.entries[visit[i]]),
                       entry |-> compose_entry(b.entries[visit[i]], orders[visit[i]])] ]
        map    == compose_for_each(EmptyMap, pairs)
        sorted == SortedKeys(DOMAIN map)
    IN  Concat([ i \in DOMAIN sorted |-> map[sorted[i]] ])

(* The reader of the biblatex library, Bibliography::parse, for the part of *)
(* the grammar that compose writes and the tests read: text outside a       *)
(* record is skipped, a record is @type{key, name = {value}, ...}, a value  *)
(* is split into Normal chunks and, for each inner pair of braces, a        *)
(* Verbatim chunk.                                                          *)

Least(S) == CHOOSE x \in S : \A y \in S : x <= y

\* the first position at or after i that holds one of `chars`, 0 if none
FindFrom(t, chars, i) ==
    LET hits == { j \in i..Len(t) : t[j] \in chars } IN
    IF hits = {} THEN 0 ELSE Least(hits)

\* the first position at or after i that holds no whitespace, Len(t) + 1 if none
SkipWs(t, i) == Least({ j \in i..(Len(t) + 1) : j > Len(t) \/ ~is_whitespace(t[j]) })

\* the position of the brace that closes `depth` open braces, 0 if none
RECURSIVE CloseBrace(_, _, _)
CloseBrace(t, i, depth) ==
    IF i > Len(t) THEN 0
    ELSE IF t[i] = "{" THEN CloseBrace(t, i + 1, depth + 1)
    ELSE IF t[i] = "}"
    THEN IF depth = 1 THEN i ELSE CloseBrace(t, i + 1, depth - 1)
    ELSE CloseBrace(t, i + 1, depth)

\* the chunks of the text between the braces of a value
RECURSIVE ToChunks(_)
ToChunks(content) ==
    IF content = <<>>
    THEN <<>>
    ELSE IF Head(content) = "{"
    THEN LET c == CloseBrace(content, 2, 1) IN
         <<Verbatim(SubSeq(content, 2, c - 1))>>
         \o ToChunks(SubSeq(content, c + 1, Len(content)))
    ELSE LET b == FindFrom(content, {"{"}, 1) IN
         IF b = 0
         THEN <<Normal(content)>>
         ELSE <<Normal(SubSeq(content, 1, b - 1))>>
              \o ToChunks(SubSeq(content, b, Len(content)))

ReadFailed == [ok |-> FALSE, fields |-> <<>>, entries |-> <<>>, next |-> 0]

\* the fields of a record from position i up to its closing brace, after the
\* fields `acc` read before; the names are stored in lower case
RECURSIVE ReadFields(_, _, _)
ReadFields(t, i, acc) ==
    LET j == SkipWs(t, i) IN
    IF j > Len(t) THEN ReadFailed
    ELSE IF t[j] = "}" THEN [ReadFailed EXCEPT !.ok = TRUE, !.fields = acc, !.next = j + 1]
    ELSE
    LET eq == FindFrom(t, {"="}, j)
        v  == SkipWs(t, eq + 1)
    IN  IF eq = 0 \/ v > Len(t) THEN ReadFailed
        ELSE
        LET braced == t[v] = "{"
            close  == IF braced
                      THEN CloseBrace(t, v + 1, 1)
                      ELSE FindFrom(t, {",", "}", " ", "\n"}, v)
        IN  IF close = 0 THEN ReadFailed
            ELSE
            LET chunks == IF braced
                          THEN ToChunks(SubSeq(t, v + 1, close - 1))
                          ELSE <<Normal(SubSeq(t, v, close - 1))>>
                after  == SkipWs(t, IF braced THEN close + 1 ELSE close)
                name   == to_lowercase(RetainNonWhitespace(SubSeq(t, j, eq - 1)))
            IN  IF after > Len(t) THEN ReadFailed
                ELSE IF t[after] \notin {",", "}"} THEN ReadFailed
                ELSE ReadFields(t, IF t[after] = "," THEN after + 1 ELSE after,
                                Append(acc, [name |-> name, chunks |-> chunks]))

\* the names of the library's EntryType variants that the texts use; every
\* other name is EntryType::Unknown
KnownTypes ==
    { TypeName.article, TypeName.book, TypeName.booklet, TypeName.inbook, TypeName.incollection, TypeName.inproceedings,
      TypeName.manual, TypeName.mastersthesis, TypeName.phdthesis, TypeName.misc, TypeName.proceedings, TypeName.techreport,
      TypeName.unpublished, TypeName.suppbook, TypeName.report, TypeName.online }

\* EntryType::new: the name is lowercased and looked up; an EntryType is
\* [known, name], name being what to_string() gives
EntryType_new(name) ==
    LET n == to_lowercase(name) IN [known |-> n \in KnownTypes, name |-> n]

\* EntryType::to_bibtex: the BibTeX type that stands for a type BibTeX lacks
to_bibtex(ty) ==
    IF ~ty.known THEN [known |-> TRUE, name |-> TypeName.misc]
    ELSE IF ty.name = TypeName.suppbook THEN [ty EXCEPT !.name = TypeName.inbook]
    ELSE IF ty.name = TypeName.report THEN [ty EXCEPT !.name = TypeName.techreport]
    ELSE IF ty.name = TypeName.online THEN [ty EXCEPT !.name = TypeName.misc]
    ELSE ty

\* the records of a text from position i on, after the records `acc`
RECURSIVE ReadEntries(_, _, _)
ReadEntries(t, i, acc) ==
    LET at == FindFrom(t, {"@"}, i) IN
    IF at = 0 THEN [ReadFailed EXCEPT !.ok = TRUE, !.entries = acc]
    ELSE
    LET b   == FindFrom(t, {"{"}, at)
        sep == IF b = 0 THEN 0 ELSE FindFrom(t, {",", "}"}, b + 1)
    IN  IF sep = 0 THEN ReadFailed
        ELSE
        LET fields == IF t[sep] = "}"
                      THEN [ReadFailed EXCEPT !.ok = TRUE, !.next = sep + 1]
                      ELSE ReadFields(t, sep + 1, <<>>)
        IN  IF ~fields.ok THEN ReadFailed
            ELSE ReadEntries(t, fields.next,
                     Append(acc,
                         [entry_type |-> EntryType_new(
                                             RetainNonWhitespace(SubSeq(t, at + 1, b - 1))),
                          key        |-> RetainNonWhitespace(SubSeq(t, b + 1, sep - 1)),
                          fields     |-> fields.fields]))

\* Bibliography::parse: None when the text is malformed
Bibliography_parse(t) ==
    LET r == ReadEntries(t, 1, <<>>) IN IF r.ok THEN Some(r.entries) ELSE None

\* From<biblatex::EntryType> for EntryKind
EntryKind_from(entry_type) ==
    LET s == to_bibtex(entry_type).name IN
    CASE s = TypeName.article                                   -> Kind("Article")
      [] s = TypeName.book                                      -> Kind("Book")
      [] s = TypeName.booklet                                   -> Kind("Booklet")
      [] s \in {TypeName.incollection, TypeName.inbook, TypeName.suppbook}    -> Kind("BookSection")
      [] s = TypeName.inproceedings                             -> Kind("InProceedings")
      [] s = TypeName.manual                                    -> Kind("Manual")
      [] s = TypeName.mastersthesis                             -> Kind("MasterThesis")
      [] s = TypeName.phdthesis                                 -> Kind("PhdThesis")
      [] s \in {TypeName.techreport, TypeName.report}                  -> Kind("TechReport")
      [] s = TypeName.proceedings                               -> Kind("Proceedings")
      [] s = TypeName.unpublished                               -> Kind("Unpublished")
      [] OTHER                                           -> KindOther(s)

\* the loop of From<biblatex::Entry> for Resolver over the fields
RECURSIVE Resolver_set_fields(_, _)
Resolver_set_fields(r, fields) ==
    IF fields = <<>>
    THEN r
    ELSE LET name  == Head(fields).name
             value == QuotedString_from(Head(fields).chunks).value
         IN  Resolver_set_fields(
                 IF name = FieldName.booktitle
                 THEN typed_setter(r, FieldName.book_title, value)
                 ELSE set_field(r, name, value),
                 Tail(fields))

\* From<biblatex::Entry> for Resolver
Resolver_from(e) ==
    Resolver_set_fields(new(EntryKind_from(e.entry_type), Some(e.key)), e.fields)

NoParse == [tag |-> "none", res |-> [tag |-> "none", biblio |-> NoBiblio,
                                     resolver |-> NoBiblioResolver]]

\* a parse without the branch for the empty string
parse_without_empty_branch(t) ==
    LET b == Bibliography_parse(t) IN
    IF ~b.some \/ Len(b.val) = 0
    THEN [NoParse EXCEPT !.tag = "Deserialize"]
    ELSE [tag |-> "Ok",
          res |-> Biblio_try_resolve([ i \in DOMAIN b.val |-> Resolver_from(b.val[i]) ])]

\* a parse that reports records with missing fields as a Deserialize error
parse_rejects_incomplete(t) ==
    LET b   == IF t = <<>> THEN Some(<<>>) ELSE Bibliography_parse(t)
        res == Biblio_try_resolve([ i \in DOMAIN b.val |-> Resolver_from(b.val[i]) ])
    IN  IF t # <<>> /\ (~b.some \/ Len(b.val) = 0)
        THEN [NoParse EXCEPT !.tag = "Deserialize"]
        ELSE IF res.tag = "Err"
        THEN [NoParse EXCEPT !.tag = "Deserialize"]
        ELSE [tag |-> "Ok", res |-> res]

\* BibTex::parse: Err(ErrorKind::Deserialize), or Ok of what try_resolve
\* returned (tag Ok with the Biblio, tag Err with the BiblioResolver)
parse(t) ==
    LET b == IF t = <<>> THEN Some(<<>>) ELSE Bibliography_parse(t) IN
    IF t # <<>> /\ (~b.some \/ Len(b.val) = 0)
    THEN [NoParse EXCEPT !.tag = "Deserialize"]
    ELSE [tag |-> "Ok",
          res |-> Biblio_try_resolve([ i \in DOMAIN b.val |-> Resolver_from(b.val[i]) ])]

----------------------------------------------------------------------------
(* Inputs *)

\* field values (QuotedString built by QuotedString::new from the text)
Values == { <<"x">>, <<"y", " ", "z">> }

\* the values entered into a resolver: both values for the kinds with at most
\* two required fields, one value for the larger kinds
ValuesFor(r) ==
    IF Len(required_fields(r.target)) <= 2 THEN Values ELSE { <<"x">> }

\* the kinds a resolver is created for
KindsUnderTest ==
    { Kind("Manual"), Kind("Proceedings"), Kind("Unpublished"), Kind("BookChapter"),
      KindOther(TypeName.misc) }

\* Entry::resolver (no cite) and Entry::resolver_with_cite
CiteInputs == { None, Some(CiteKey.cite) }

\* names handed to set_field: the names the kind requires and two names that
\* are not lowercase
SetFieldNames(r) == Range(required_fields(r.target)) \cup { FieldName.Title, FieldName.URL }

\* typed setters that are called: those of the names the kind requires
TypedSettersUnderTest(r) == TypedSetterNames \cap Range(required_fields(r.target))

\* names handed to add_required_fields (--fields on the command line)
AddNames == { FieldName.url, FieldName.URL }

BoundedSeq(S, n) == UNION { [1..m -> S] : m \in 0..n }

\* finished entries, as their resolvers build them
Entries ==
    [
    \* the Book entry of the test add_book_entry_fields_to_book_chapter_resolver
    Book |->
          [kind     |-> Kind("Book"),
           cite     |-> CiteKey.cite,
           required |-> [ n \in Range(required_fields(Kind("Book"))) |-> <<"x">> ],
           optional |-> EmptyMap],
    \* the Other entry of the test field_names_from_entry_keep_casing, whose
    \* optional field name is not lowercase
    Misc |->
          [kind     |-> KindOther(TypeName.misc),
           cite     |-> CiteKey.cite,
           required |-> [ n \in {FieldName.title} |-> <<"x">> ],
           optional |-> [ n \in {FieldName.tEsT} |-> <<"y", " ", "z">> ]],
    \* finished entries of other kinds, as their resolvers build them
    Proceedings |->
          [kind |-> Kind("Proceedings"), cite |-> <<"p","1">>,
           required |-> [ n \in {FieldName.title, FieldName.year} |-> IF n = FieldName.year THEN <<"1">> ELSE <<"x">> ],
           optional |-> EmptyMap],
    BookChapter |->
          [kind |-> Kind("BookChapter"), cite |-> <<"c","1">>,
           required |-> [ n \in Range(required_fields(Kind("BookChapter"))) |-> <<"x">> ],
           optional |-> EmptyMap],
    BookSection |->
          [kind |-> Kind("BookSection"), cite |-> <<"s","1">>,
           required |-> [ n \in Range(required_fields(Kind("BookSection"))) |-> <<"x">> ],
           optional |-> EmptyMap],
    Other |->
          [kind |-> KindOther(TypeName.misc), cite |-> <<"m","1">>,
           required |-> [ n \in {FieldName.title} |-> <<"x">> ],
           optional |-> [ n \in {FieldName.url} |-> <<"y", " ", "z">> ]],
    \* a Manual entry with an optional field that set_field("date_added", ..) sets
    Dated |->
          [kind |-> Kind("Manual"), cite |-> <<"d","1">>,
           required |-> [ n \in {FieldName.title} |-> <<"x">> ],
           optional |-> [ n \in {FieldName.date_added} |-> <<"1">> ]] ]

\* entries handed to set_fields_from_entry
EntryInputs == { Entries.Book, Entries.Misc }

\* names handed to find_field: a required name and an optional name, each as
\* stored and in another casing
FindNames == { FieldName.title, FieldName.Title, FieldName.tEsT, FieldName.test, FieldName.url, FieldName.URL }

\* a Manual resolver as Manual::resolver_with_cite / Manual::resolver gives it,
\* and the same resolver after set_field("title", "x")
ManualResolver(c) == new(Kind("Manual"), c)
ManualResolverDone(c) ==
    [ManualResolver(c) EXCEPT !.req = <<>>, !.fields = [ n \in {FieldName.title} |-> <<"x">> ]]

\* the resolvers a batch is made of: two that miss nothing, two that miss title
ResolverInputs ==
    { ManualResolverDone(Some(CiteKey.cite)), ManualResolverDone(Some(CiteKey.K1)),
      ManualResolver(Some(CiteKey.k2)), ManualResolver(None) }

\* a finished Manual entry
ManualEntry(c, title) ==
    [kind |-> Kind("Manual"), cite |-> c,
     required |-> [ n \in {FieldName.title} |-> title ], optional |-> EmptyMap]

\* the entries handed to Biblio::new and Biblio::insert: two with the same key
\* and different titles, one whose key differs in case only, one other
BiblioEntryInputs ==
    { ManualEntry(CiteKey.cite, <<"x">>), ManualEntry(CiteKey.cite, <<"y">>),
      ManualEntry(CiteKey.K1, <<"x">>), ManualEntry(CiteKey.k2, <<"x">>) }

\* the entries handed to Biblio::insert: those, and the Other entry whose
\* optional field name is not lowercase
BiblioInsertInputs == BiblioEntryInputs \cup { Entries.Misc }

\* the names handed to Biblio::contains_field and the predicates: one accepts
\* "x", the other "y z"
ContainsNames == { FieldName.title, FieldName.Title, FieldName.tEsT, FieldName.url }
Predicates == { { <<"x">> }, { <<"y", " ", "z">> } }

\* the keys handed to Biblio::remove; "K2" is stored nowhere in upper case
RemoveCites == { CiteKey.cite, CiteKey.K1, <<"K","2">>, TypeName.misc }

\* the entries of the Biblios handed to compose: two of one kind, and others
ComposeEntries ==
    { ManualEntry(CiteKey.cite, <<"x">>), ManualEntry(CiteKey.k2, <<"y", " ", "z">>),
      Entries.Proceedings, Entries.BookChapter, Entries.BookSection, Entries.Other, Entries.Dated }

\* the Biblios handed to compose
ComposeInputs ==
    { Biblio_new(entries) :
        entries \in { o \in BoundedSeq(ComposeEntries, MaxComposed) :
                        \A i, j \in DOMAIN o : i < j => StrLess(o[i].cite, o[j].cite) } }

\* the iteration orders of the optional maps of the entries of a Biblio
OptionalOrders(b) ==
    { f \in [DOMAIN b.entries ->
                UNION { Orders(DOMAIN b.entries[c].optional) : c \in DOMAIN b.entries }] :
        \A c \in DOMAIN b.entries : f[c] \in Orders(DOMAIN b.entries[c].optional) }

\* the texts handed to parse: the empty string, the texts of the tests
\* client_text_parse_error, valid_and_incomplete_entry_returns_resolver and
\* parse_booktitle_field_as_book_title, records of kinds outside the catalog,
\* a complete record followed by an incomplete one, an unfinished record and
\* a blank
Texts ==
    [ empty |->
          <<>>,
      not_bibtex |->
          <<"T","h","i","s"," ","i","s"," ","n","o","t"," ","v","a","l","i","d",
          " ","B","i","b","T","e","X">>,
      incomplete |->
          <<"@","b","o","o","k","{","t","e","s","t",","," ","a","u","t","h","o",
          "r","=","{","M","e","}",","," ","p","u","b","l","i","s","h","e","r","=",
          "{","A","l","s","o"," ","m","e","}",",","}">>,
      misc |->
          <<"@","m","i","s","c","{","c","i","t","e",","," ","t","i","t","l","e",
          "=","{","t","i","t","l","e","}",",","b","o","o","k","t","i","t","l","e",
          "=","{","C","o","r","r","e","c","t","}",",","}">>,
      online |->
          <<"@","o","n","l","i","n","e","{","k","1",","," ","t","i","t","l","e",
          "=","{","x","}",",","}">>,
      Custom |->
          <<"@","C","u","s","t","o","m","{","k","1",","," ","t","i","t","l","e",
          "=","{","x","}",",","}">>,
      no_title |->
          <<"@","m","i","s","c","{","k","1",",","}">>,
      two |->
          <<"@","m","a","n","u","a","l","{","k","1",","," ","t","i","t","l","e",
          "=","{","x","}",",","}","\n","@","p","r","o","c","e","e","d","i","n",
          "g","s","{","p","1",","," ","t","i","t","l","e","=","{","x","}",",","}"
          >>,
      unfinished |->
          <<"@","m","a","n","u","a","l","{","k","1",","," ","t","i","t","l","e",
          "=","{","x","}">>,
      blank |->
          <<" ">> ]

TextInputs ==
    { Texts.empty, Texts.not_bibtex, Texts.incomplete, Texts.misc, Texts.online, Texts.Custom, Texts.no_title,
      Texts.two, Texts.unfinished, Texts.blank }

\* the chunks of the test biblatex_verbatim_chunk_escape_is_corrected
HttpChunks ==
    << Verbatim(<<"(","H","T","T","P","/">>), Normal(<<"1">>), Verbatim(<<".">>),
       Normal(<<"1">>), Verbatim(<<")">>) >>

\* the values handed to From<Chunks>: that one, and every value of up to
\* MaxChunks chunks that are in turn verbatim and normal, the verbatim ones
\* with and without the escape at their end
ChunkInputs ==
    { HttpChunks } \cup
    { c \in BoundedSeq({ Verbatim(<<"a", "/">>), Verbatim(<<"b">>), Normal(<<"1">>) },
                       MaxChunks) :
        \A i \in 1..(Len(c) - 1) : c[i].verbatim # c[i + 1].verbatim }

\* the texts handed to QuotedString::new, quote and from_quoted: plain
\* characters, one of them of two bytes, and the escape characters
QuotedTexts == BoundedSeq({"a", "ß", "{", "}", "$"}, MaxQuoted)

\* the escape patterns handed to from_quoted: a char and an array of chars
Patterns == { {"$"}, {"{", "}"} }

\* the lists handed to from_parts: plain and verbatim parts, empty ones too
PartsInputs ==
    BoundedSeq({ Normal(<<"a">>), Normal(<<>>), Verbatim(<<"b">>), Verbatim(<<"ß">>),
                 Verbatim(<<>>) }, MaxParts)

\* the closures handed to map_quoted
Closures == { "bibtex_esc", "new" }

----------------------------------------------------------------------------
(* State machine *)

NoOp == [op |-> "new", name |-> <<>>, value |-> <<>>, names |-> <<>>,
         entry |-> None, result |-> ""]

\* user_resolve_entry: not running, running its loop (with the number of
\* requirements at entry and the number of completed iterations), returned
\* Ok(()), returned the error of a failed prompt
Idle == [state |-> "idle", n0 |-> 0, iters |-> 0]
Cancelled == [state |-> "cancelled", n0 |-> 0, iters |-> 0]

BNoOp == [op |-> "none", prev |-> "none", batch |-> <<>>, index |-> 0, tag |-> "",
          item |-> None, cite |-> <<>>, flag |-> FALSE, before |-> 0,
          name |-> <<>>, predicate |-> {}]

NoHistory == [origin |-> "none", errs |-> FALSE, taken |-> FALSE, mutated |-> FALSE]

CNoOp == [op |-> "none", origin |-> "none", biblio |-> NoBiblio, visit |-> <<>>,
          source |-> <<>>, chunks |-> <<>>, parts |-> <<>>,
          qs |-> QuotedString_new(<<>>), pattern |-> {}, f |-> "", mapped |-> <<>>,
          other |-> QuotedString_new(<<>>), equal |-> FALSE]

\* no text is at hand
NoCodec ==
    /\ text = <<>>
    /\ parsed = NoParse
    /\ clast = CNoOp

\* no batch is worked on
NoBatch ==
    /\ stage = "start"
    /\ biblio_resolver = NoBiblioResolver
    /\ biblio = NoBiblio
    /\ blast = BNoOp
    /\ history = NoHistory

Init ==
    /\ resolver \in { new(k, c) : k \in KindsUnderTest, c \in CiteInputs }
    /\ alive = TRUE
    /\ key = None
    /\ entry = None
    /\ last = NoOp
    /\ snap = None
    /\ loop = Idle
    /\ NoBatch
    /\ NoCodec

\* the resolver exists, no handle borrows it and no prompt loop is running
Free == alive /\ ~key.some /\ loop.state # "running"

SetField ==
    /\ Free
    /\ \E name \in SetFieldNames(resolver), value \in ValuesFor(resolver) :
         /\ resolver' = set_field(resolver, name, value)
         /\ last' = [NoOp EXCEPT !.op = "set_field", !.name = name, !.value = value]
    /\ snap' = None
    /\ loop' = Idle
    /\ UNCHANGED <<alive, key, entry>>
    /\ UNCHANGED bvars
    /\ UNCHANGED cvars

TypedSetter ==
    /\ Free
    /\ \E field \in TypedSettersUnderTest(resolver), value \in ValuesFor(resolver) :
         /\ resolver' = typed_setter(resolver, field, value)
         /\ last' = [NoOp EXCEPT !.op = "typed_setter", !.name = field, !.value = value]
    /\ snap' = None
    /\ loop' = Idle
    /\ UNCHANGED <<alive, key, entry>>
    /\ UNCHANGED bvars
    /\ UNCHANGED cvars

AddRequiredFields ==
    /\ Free
    /\ \E fields \in BoundedSeq(AddNames, MaxAddLen) :
         /\ resolver' = add_required_fields(resolver, fields)
         /\ last' = [NoOp EXCEPT !.op = "add_required_fields", !.names = fields]
    /\ snap' = None
    /\ loop' = Idle
    /\ UNCHANGED <<alive, key, entry>>
    /\ UNCHANGED bvars
    /\ UNCHANGED cvars

SetFieldsFromEntry ==
    /\ Free
    /\ \E e \in EntryInputs : \E order \in Orders(DOMAIN e.optional) :
         /\ resolver' = set_fields_from_entry(resolver, entry_fields(e, order))
         /\ last' = [NoOp EXCEPT !.op = "set_fields_from_entry", !.entry = Some(e)]
    /\ snap' = None
    /\ loop' = Idle
    /\ UNCHANGED <<alive, key, entry>>
    /\ UNCHANGED bvars
    /\ UNCHANGED cvars

NextRequiredEntry ==
    /\ Free
    /\ LET res == next_required_entry(resolver) IN
         /\ resolver' = res.resolver
         /\ key' = res.key
         /\ snap' = IF res.key.some THEN Some(resolver) ELSE None
         /\ last' = [NoOp EXCEPT !.op = "next_required_entry", !.name = res.key.val,
                                 !.result = IF res.key.some THEN "Some" ELSE "None"]
    /\ loop' = Idle
    /\ UNCHANGED <<alive, entry>>
    /\ UNCHANGED bvars
    /\ UNCHANGED cvars

Insert ==
    /\ alive /\ key.some /\ loop.state # "running"
    /\ \E value \in ValuesFor(resolver) :
         /\ resolver' = insert(resolver, key, value)
         /\ last' = [NoOp EXCEPT !.op = "insert", !.name = key.val, !.value = value]
    /\ key' = None
    /\ UNCHANGED <<alive, entry, snap, loop>>
    /\ UNCHANGED bvars
    /\ UNCHANGED cvars

DropEntry ==
    /\ alive /\ key.some /\ loop.state # "running"
    /\ resolver' = drop(resolver, key)
    /\ key' = None
    /\ last' = [NoOp EXCEPT !.op = "drop", !.name = key.val]
    /\ UNCHANGED <<alive, entry, snap, loop>>
    /\ UNCHANGED bvars
    /\ UNCHANGED cvars

Resolve ==
    /\ Free
    /\ LET res == resolve(resolver) IN
         /\ resolver' = res.resolver
         /\ alive' = (res.tag = "Err")
         /\ entry' = res.entry
         /\ last' = [NoOp EXCEPT !.op = "resolve", !.result = res.tag]
    /\ snap' = None
    /\ UNCHANGED <<key, loop>>
    /\ UNCHANGED bvars
    /\ UNCHANGED cvars

\* Resolver::cite called on the resolver: a read through &self
Cite ==
    /\ Free
    /\ last' = [NoOp EXCEPT !.op = "cite", !.value = cite(resolver)]
    /\ snap' = None
    /\ loop' = Idle
    /\ UNCHANGED <<resolver, alive, key, entry>>
    /\ UNCHANGED bvars
    /\ UNCHANGED cvars

\* Entry::find_field called on the entry that resolve() returned
FindField ==
    /\ entry.some
    /\ \E name \in FindNames :
         LET res == find_field(entry.val, name) IN
         last' = [NoOp EXCEPT !.op = "find_field", !.name = name, !.value = res.val,
                              !.result = IF res.some THEN "Some" ELSE "None"]
    /\ UNCHANGED <<resolver, alive, key, entry, snap, loop>>
    /\ UNCHANGED bvars
    /\ UNCHANGED cvars

\* user_resolve_entry: entry, up to the first evaluation of the loop condition
UserResolveEntry ==
    /\ Free
    /\ loop' = [state |-> "running", n0 |-> Len(resolver.req), iters |-> 0]
    /\ last' = [NoOp EXCEPT !.op = "user_resolve_entry"]
    /\ snap' = None
    /\ UNCHANGED <<resolver, alive, key, entry>>
    /\ UNCHANGED bvars
    /\ UNCHANGED cvars

\* the loop condition `while let Some(field_entry) = resolver.next_required_entry()`
UserLoopNext ==
    /\ alive /\ ~key.some /\ loop.state = "running"
    /\ LET res == next_required_entry(resolver) IN
         /\ resolver' = res.resolver
         /\ key' = res.key
         /\ snap' = IF res.key.some THEN Some(resolver) ELSE None
         /\ last' = [NoOp EXCEPT !.op = "next_required_entry", !.name = res.key.val,
                                 !.result = IF res.key.some THEN "Some" ELSE "None"]
         /\ loop' = IF res.key.some THEN loop ELSE [loop EXCEPT !.state = "done"]
    /\ UNCHANGED <<alive, entry>>
    /\ UNCHANGED bvars
    /\ UNCHANGED cvars

\* the loop body when user_input returns Ok(input)
UserLoopInsert ==
    /\ alive /\ key.some /\ loop.state = "running"
    /\ \E value \in ValuesFor(resolver) :
         /\ resolver' = insert(resolver, key, value)
         /\ last' = [NoOp EXCEPT !.op = "insert", !.name = key.val, !.value = value]
    /\ key' = None
    /\ loop' = [loop EXCEPT !.iters = @ + 1]
    /\ UNCHANGED <<alive, entry, snap>>
    /\ UNCHANGED bvars
    /\ UNCHANGED cvars

\* the loop body when user_input returns Err: `?` returns and drops the handle
UserLoopCancel ==
    /\ alive /\ key.some /\ loop.state = "running"
    /\ resolver' = drop(resolver, key)
    /\ key' = None
    /\ last' = [NoOp EXCEPT !.op = "drop", !.name = key.val]
    /\ loop' = Cancelled
    /\ UNCHANGED <<alive, entry, snap>>
    /\ UNCHANGED bvars
    /\ UNCHANGED cvars

Next ==
    \/ SetField
    \/ TypedSetter
    \/ AddRequiredFields
    \/ SetFieldsFromEntry
    \/ NextRequiredEntry
    \/ Insert
    \/ DropEntry
    \/ Resolve
    \/ Cite
    \/ FindField
    \/ UserResolveEntry
    \/ UserLoopNext
    \/ UserLoopInsert
    \/ UserLoopCancel

Spec == Init /\ [][Next]_vars

\* user_resolve_entry runs to its end once entered: the loop is sequential code
\* and every prompt returns
UserLoopStep == UserLoopNext \/ UserLoopInsert \/ UserLoopCancel

FairSpec == Spec /\ WF_vars(UserLoopStep)

----------------------------------------------------------------------------
(* State machine of a batch: Biblio::try_resolve or Biblio::new, then the   *)
(* operations of the BiblioResolver or of the Biblio that came out of it.   *)

\* a batch is about to be read; no single resolver is worked on
BiblioInit ==
    /\ NoBatch
    /\ NoCodec
    /\ resolver = Moved
    /\ alive = FALSE
    /\ key = None
    /\ entry = None
    /\ last = NoOp
    /\ snap = None
    /\ loop = Idle

\* user_resolve_biblio_resolver is running and owns the BiblioResolver
BiblioLooping == loop.state \in {"running", "filled"}

\* Biblio::try_resolve(resolvers)
TryResolve ==
    /\ stage = "start"
    /\ \E resolvers \in BoundedSeq(ResolverInputs, MaxBatch) :
         LET res == Biblio_try_resolve(resolvers) IN
         /\ stage' = res.tag
         /\ biblio_resolver' = res.resolver
         /\ biblio' = res.biblio
         /\ blast' = [BNoOp EXCEPT !.op = "try_resolve", !.batch = resolvers]
         /\ history' = [NoHistory EXCEPT !.origin = "try_resolve",
                                         !.errs = (res.tag = "Err")]
    /\ UNCHANGED rvars
    /\ UNCHANGED cvars

\* BiblioResolver::resolve on the resolver a failed attempt returned
BiblioResolverResolve ==
    /\ stage = "Err" /\ ~BiblioLooping
    /\ LET res == BiblioResolver_resolve(biblio_resolver) IN
         /\ stage' = res.tag
         /\ biblio_resolver' = res.resolver
         /\ biblio' = res.biblio
         /\ blast' = [BNoOp EXCEPT !.op = "resolve", !.prev = blast.op,
                                   !.before = Len(biblio_resolver.entries)]
         /\ history' = [history EXCEPT !.errs = @ \/ (res.tag = "Err"),
                                       !.taken = FALSE]
    /\ UNCHANGED rvars
    /\ UNCHANGED cvars

\* a field set on one of the resolvers that unresolved() hands out
Unresolved ==
    /\ stage = "Err" /\ ~BiblioLooping
    /\ \E i \in DOMAIN biblio_resolver.resolvers :
         \E name \in Range(required_fields(biblio_resolver.resolvers[i].target)) :
           /\ biblio_resolver' =
                  [biblio_resolver EXCEPT !.resolvers[i] = set_field(@, name, <<"x">>)]
           /\ blast' = [BNoOp EXCEPT !.op = "unresolved", !.prev = blast.op,
                                     !.index = i - 1]
    /\ UNCHANGED <<stage, biblio, history>>
    /\ UNCHANGED rvars
    /\ UNCHANGED cvars

\* BiblioResolver::checked_remove(index), index up to one past the last item
CheckedRemove ==
    /\ stage = "Err" /\ ~BiblioLooping
    /\ \E index \in 0 .. (Len(biblio_resolver.entries) + Len(biblio_resolver.resolvers)) :
         LET res == BiblioResolver_checked_remove(biblio_resolver, index) IN
         /\ biblio_resolver' = res.self
         /\ blast' = [BNoOp EXCEPT !.op = "checked_remove", !.prev = blast.op,
                                   !.index = index, !.tag = res.tag,
                                   !.item = IF res.tag = "None" THEN None
                                            ELSE Some(res.item),
                                   !.before = Len(biblio_resolver.entries)]
         /\ history' = [history EXCEPT !.taken = @ \/ (res.tag = "Err")]
    /\ UNCHANGED <<stage, biblio>>
    /\ UNCHANGED rvars
    /\ UNCHANGED cvars

\* Biblio::new(entries)
BiblioNew ==
    /\ stage = "start"
    /\ \E entries \in BoundedSeq(BiblioEntryInputs, MaxBatch) :
         /\ biblio' = Biblio_new(entries)
         /\ blast' = [BNoOp EXCEPT !.op = "new", !.batch = entries]
    /\ stage' = "Ok"
    /\ history' = [NoHistory EXCEPT !.origin = "new"]
    /\ UNCHANGED biblio_resolver
    /\ UNCHANGED rvars
    /\ UNCHANGED cvars

\* Biblio::insert(entry)
BiblioInsert ==
    /\ stage = "Ok" /\ ~BiblioLooping
    /\ \E e \in BiblioInsertInputs :
         /\ biblio' = Biblio_insert(biblio, e)
         /\ blast' = [BNoOp EXCEPT !.op = "insert", !.prev = blast.op,
                                   !.cite = e.cite, !.item = Some(e),
                                   !.before = Cardinality(DOMAIN biblio.entries)]
    /\ history' = [history EXCEPT !.mutated = TRUE]
    /\ UNCHANGED <<stage, biblio_resolver>>
    /\ UNCHANGED rvars
    /\ UNCHANGED cvars

\* Biblio::remove(cite)
BiblioRemove ==
    /\ stage = "Ok" /\ ~BiblioLooping
    /\ \E c \in RemoveCites :
         LET res == Biblio_remove(biblio, c) IN
         /\ biblio' = res.self
         /\ blast' = [BNoOp EXCEPT !.op = "remove", !.prev = blast.op,
                                   !.cite = c, !.flag = res.removed,
                                   !.before = Cardinality(DOMAIN biblio.entries)]
    /\ history' = [history EXCEPT !.mutated = @ \/ (biblio'.entries # biblio.entries)]
    /\ UNCHANGED <<stage, biblio_resolver>>
    /\ UNCHANGED rvars
    /\ UNCHANGED cvars

\* Biblio::dirty()
BiblioDirty ==
    /\ stage = "Ok" /\ ~BiblioLooping
    /\ LET res == Biblio_dirty(biblio) IN
         /\ biblio' = res.self
         /\ blast' = [BNoOp EXCEPT !.op = "dirty", !.prev = blast.op,
                                   !.flag = res.dirty]
    /\ history' = [history EXCEPT !.mutated = FALSE]
    /\ UNCHANGED <<stage, biblio_resolver>>
    /\ UNCHANGED rvars
    /\ UNCHANGED cvars

\* Biblio::contains_field(key, predicate): a read through &self
BiblioContainsField ==
    /\ stage = "Ok" /\ ~BiblioLooping
    /\ \E k \in ContainsNames, predicate \in Predicates :
         blast' = [BNoOp EXCEPT !.op = "contains_field", !.prev = blast.op,
                                !.name = k, !.predicate = predicate,
                                !.flag = Biblio_contains_field(biblio, k, predicate)]
    /\ UNCHANGED <<stage, biblio_resolver, biblio, history>>
    /\ UNCHANGED rvars
    /\ UNCHANGED cvars

\* user_resolve_biblio_resolver(resolver) is called with the BiblioResolver
\* that a failed attempt returned: `let mut res = Err(resolver)`
UserResolveBiblioResolver ==
    /\ stage = "Err" /\ ~BiblioLooping
    /\ loop' = [state |-> "running", n0 |-> Len(biblio_resolver.resolvers), iters |-> 0]
    /\ blast' = [BNoOp EXCEPT !.op = "user_resolve_biblio_resolver", !.prev = blast.op]
    /\ UNCHANGED <<stage, biblio_resolver, biblio, history>>
    /\ UNCHANGED <<resolver, alive, key, entry, last, snap>>
    /\ UNCHANGED cvars

\* the for loop of the Err arm when no prompt fails: every resolver of
\* unresolved() goes through user_resolve_entry with the values the user
\* types (the same for all, or two in turn)
BiblioLoopFill ==
    /\ stage = "Err" /\ loop.state = "running" /\ loop.iters < MaxPasses
    /\ \E values \in { [ i \in DOMAIN biblio_resolver.resolvers |-> <<"x">> ],
                       [ i \in DOMAIN biblio_resolver.resolvers |->
                           IF i % 2 = 1 THEN <<"x">> ELSE <<"y">> ] } :
         biblio_resolver' = [biblio_resolver EXCEPT !.resolvers =
                                [ i \in DOMAIN @ |-> user_resolve_entry(@[i], values[i]) ]]
    /\ loop' = [loop EXCEPT !.state = "filled"]
    /\ blast' = [BNoOp EXCEPT !.op = "loop_fill", !.prev = blast.op]
    /\ UNCHANGED <<stage, biblio, history>>
    /\ UNCHANGED <<resolver, alive, key, entry, last, snap>>
    /\ UNCHANGED cvars

\* the end of the pass: `res = resolver.resolve()`
BiblioLoopResolve ==
    /\ stage = "Err" /\ loop.state = "filled"
    /\ \E res \in { BiblioResolver_resolve(biblio_resolver) } :
         /\ stage' = res.tag
         /\ biblio_resolver' = res.resolver
         /\ biblio' = res.biblio
         /\ history' = [history EXCEPT !.errs = @ \/ (res.tag = "Err"),
                                       !.taken = FALSE]
    /\ loop' = [loop EXCEPT !.state = "running", !.iters = @ + 1]
    /\ blast' = [BNoOp EXCEPT !.op = "loop_resolve", !.prev = blast.op,
                              !.before = Len(biblio_resolver.entries)]
    /\ UNCHANGED <<resolver, alive, key, entry, last, snap>>
    /\ UNCHANGED cvars

\* a prompt of the for loop fails: `?` returns the error and the BiblioResolver,
\* owned by the function, is dropped
BiblioLoopCancel ==
    /\ stage = "Err" /\ loop.state = "running"
    /\ \E i \in DOMAIN biblio_resolver.resolvers : biblio_resolver.resolvers[i].req # <<>>
    /\ stage' = "cancelled"
    /\ biblio_resolver' = NoBiblioResolver
    /\ loop' = Cancelled
    /\ blast' = [BNoOp EXCEPT !.op = "user_resolve_biblio_resolver", !.prev = blast.op,
                              !.tag = "Err", !.index = loop.iters]
    /\ UNCHANGED <<biblio, history>>
    /\ UNCHANGED <<resolver, alive, key, entry, last, snap>>
    /\ UNCHANGED cvars

\* the Ok arm: `Ok(bib) => return Ok(bib)`; blast.index is the number of
\* passes the loop body made
BiblioLoopReturn ==
    /\ stage = "Ok" /\ loop.state = "running"
    /\ loop' = Idle
    /\ blast' = [BNoOp EXCEPT !.op = "user_resolve_biblio_resolver", !.prev = blast.op,
                              !.tag = "Ok", !.index = loop.iters]
    /\ UNCHANGED <<stage, biblio_resolver, biblio, history>>
    /\ UNCHANGED <<resolver, alive, key, entry, last, snap>>
    /\ UNCHANGED cvars

BiblioNext ==
    \/ TryResolve
    \/ BiblioResolverResolve
    \/ Unresolved
    \/ CheckedRemove
    \/ BiblioNew
    \/ BiblioInsert
    \/ BiblioRemove
    \/ BiblioDirty
    \/ BiblioContainsField
    \/ UserResolveBiblioResolver
    \/ BiblioLoopFill
    \/ BiblioLoopResolve
    \/ BiblioLoopCancel
    \/ BiblioLoopReturn

BiblioSpec == BiblioInit /\ [][BiblioNext]_vars

\* user_resolve_biblio_resolver runs on once entered: its loop is sequential
\* code and every prompt returns
BiblioFairSpec ==
    BiblioSpec /\ WF_vars(BiblioLoopFill \/ BiblioLoopResolve \/ BiblioLoopCancel \/ BiblioLoopReturn)

----------------------------------------------------------------------------
(* State machine of the format; the format keeps no state between calls,    *)
(* so a behaviour is one of: BibTex::compose of a Biblio and BibTex::parse  *)
(* of what was composed; BibTex::parse of a given text and compose of what  *)
(* it parsed to; the conversion of the chunks of one value.                 *)

CodecInit == BiblioInit

\* BibTex::compose(&biblio)
Compose ==
    /\ clast.op = "none"
    /\ \E b \in ComposeInputs :
         \E visit \in Orders(DOMAIN b.entries), orders \in OptionalOrders(b) :
           /\ text' = compose(b, visit, orders)
           /\ clast' = [CNoOp EXCEPT !.op = "compose", !.origin = "compose",
                                     !.biblio = b, !.visit = visit]
    /\ parsed' = NoParse
    /\ UNCHANGED rvars
    /\ UNCHANGED bvars

\* BibTex::new(text).parse() of the text that compose returned
ParseComposed ==
    /\ clast.op = "compose"
    /\ parsed' = parse(text)
    /\ clast' = [clast EXCEPT !.op = "parse", !.source = text]
    /\ UNCHANGED text
    /\ UNCHANGED rvars
    /\ UNCHANGED bvars

\* BibTex::new(text).parse() of a given text
ParseText ==
    /\ clast.op = "none"
    /\ \E t \in TextInputs :
         /\ text' = t
         /\ parsed' = parse(t)
         /\ clast' = [CNoOp EXCEPT !.op = "parse", !.origin = "text", !.source = t]
    /\ UNCHANGED rvars
    /\ UNCHANGED bvars

\* BibTex::compose of the Biblio that parse returned for a given text
ComposeParsed ==
    /\ clast.op = "parse" /\ clast.origin = "text"
    /\ parsed.tag = "Ok" /\ parsed.res.tag = "Ok"
    /\ LET b == parsed.res.biblio IN
         \E visit \in Orders(DOMAIN b.entries), orders \in OptionalOrders(b) :
           /\ text' = compose(b, visit, orders)
           /\ clast' = [clast EXCEPT !.op = "compose", !.biblio = b, !.visit = visit]
    /\ UNCHANGED parsed
    /\ UNCHANGED rvars
    /\ UNCHANGED bvars

\* QuotedString::from(chunks)
FromChunks ==
    /\ clast.op = "none"
    /\ \E chunks \in ChunkInputs :
         clast' = [CNoOp EXCEPT !.op = "from_chunks", !.origin = "chunks",
                                !.chunks = chunks,
                                !.parts = chunk_parts(chunks),
                                !.qs = QuotedString_from(chunks)]
    /\ UNCHANGED <<text, parsed>>
    /\ UNCHANGED rvars
    /\ UNCHANGED bvars

\* QuotedString::new(text)
QuotedNew ==
    /\ clast.op = "none"
    /\ \E t \in QuotedTexts :
         clast' = [CNoOp EXCEPT !.op = "new", !.origin = "new", !.source = t,
                                !.qs = QuotedString_new(t)]
    /\ UNCHANGED <<text, parsed>>
    /\ UNCHANGED rvars
    /\ UNCHANGED bvars

\* QuotedString::quote(text)
Quote ==
    /\ clast.op = "none"
    /\ \E t \in QuotedTexts :
         clast' = [CNoOp EXCEPT !.op = "quote", !.origin = "quote", !.source = t,
                                !.qs = quote(t)]
    /\ UNCHANGED <<text, parsed>>
    /\ UNCHANGED rvars
    /\ UNCHANGED bvars

\* QuotedString::from_quoted(text, pattern)
FromQuoted ==
    /\ clast.op = "none"
    /\ \E t \in QuotedTexts, pattern \in Patterns :
         clast' = [CNoOp EXCEPT !.op = "from_quoted", !.origin = "from_quoted", !.source = t,
                                !.pattern = pattern, !.qs = from_quoted(t, pattern)]
    /\ UNCHANGED <<text, parsed>>
    /\ UNCHANGED rvars
    /\ UNCHANGED bvars

\* QuotedString::from_parts(parts)
FromParts ==
    /\ clast.op = "none"
    /\ \E parts \in PartsInputs :
         clast' = [CNoOp EXCEPT !.op = "from_parts", !.origin = "from_parts", !.parts = parts,
                                !.qs = from_parts(parts)]
    /\ UNCHANGED <<text, parsed>>
    /\ UNCHANGED rvars
    /\ UNCHANGED bvars

\* qs.map_quoted(f) of a value that one of the constructors returned
MapQuoted ==
    /\ clast.op \in {"new", "quote", "from_quoted", "from_parts"}
    /\ \E f \in Closures :
         clast' = [clast EXCEPT !.op = "map_quoted", !.f = f,
                                !.mapped = map_quoted(clast.qs, f)]
    /\ UNCHANGED <<text, parsed>>
    /\ UNCHANGED rvars
    /\ UNCHANGED bvars

\* qs == other, for the values that new and quote give for the same text and
\* for another text
QuotedEq ==
    /\ clast.op \in {"new", "quote"}
    /\ \E t \in {clast.qs.value, <<"a">>} :
         \E other \in {QuotedString_new(t), quote(t)} :
           clast' = [clast EXCEPT !.op = "eq", !.other = other,
                                  !.equal = QuotedString_eq(clast.qs, other)]
    /\ UNCHANGED <<text, parsed>>
    /\ UNCHANGED rvars
    /\ UNCHANGED bvars

CodecNext ==
    \/ Compose
    \/ ParseComposed
    \/ ParseText
    \/ ComposeParsed
    \/ FromChunks
    \/ QuotedNew
    \/ Quote
    \/ FromQuoted
    \/ FromParts
    \/ MapQuoted
    \/ QuotedEq

CodecSpec == CodecInit /\ [][CodecNext]_vars

----------------------------------------------------------------------------
(* Properties *)

NoDuplicates(s) == \A i, j \in DOMAIN s : s[i] = s[j] => i = j

\* the last element of a non-empty sequence
Last(s) == s[Len(s)]

\* C1: resolve() returns Ok(Entry) exactly when the remaining-required list is
\* empty at the moment of the call, and Err(resolver) exactly when it is not.
C1_ResolveOkIffNothingRequired ==
    [][ last'.op = "resolve" =>
          /\ (last'.result = "Ok")  <=> (resolver.req = <<>>)
          /\ (last'.result = "Err") <=> (resolver.req # <<>>) ]_vars

\* a resolve() that succeeded on a resolver whose added requirement URL had
\* been entered
C1_Witness ==
    /\ last.op = "resolve" /\ last.result = "Ok"
    /\ entry.some /\ FieldName.URL \in DOMAIN entry.val.optional

\* C2: a failed resolve() hands back the resolver it was called on: same kind,
\* same cite, same fields and values, same remaining requirements.
C2_FailedResolveKeepsResolver ==
    [][ (last'.op = "resolve" /\ last'.result = "Err") =>
          /\ alive'
          /\ resolver'.target = resolver.target
          /\ resolver'.cite = resolver.cite
          /\ resolver'.fields = resolver.fields
          /\ resolver'.req = resolver.req ]_vars

\* a failed resolve() on a resolver with a cite, entered fields and open
\* requirements
C2_Witness ==
    /\ last.op = "resolve" /\ last.result = "Err"
    /\ resolver.cite.some
    /\ Cardinality(DOMAIN resolver.fields) >= 2
    /\ Len(resolver.req) >= 2

\* C3: no field name is both a key of the fields map and a remaining
\* requirement.
C3_FieldsDisjointFromRequired ==
    (DOMAIN resolver.fields) \cap Range(resolver.req) = {}

\* add_required_fields was called with a name that is already set, while other
\* requirements are open
C3_Witness ==
    /\ last.op = "add_required_fields"
    /\ \E i \in DOMAIN last.names : last.names[i] \in DOMAIN resolver.fields
    /\ resolver.req # <<>>

\* C4: dropping the handle of next_required_entry() without insert leaves the
\* same required names, the same count of them and the same fields as before
\* next_required_entry() was called.
C4_DropRestoresRequirement ==
    last.op = "drop" =>
        /\ snap.some
        /\ Range(resolver.req) = Range(snap.val.req)
        /\ Len(resolver.req) = Len(snap.val.req)
        /\ resolver.fields = snap.val.fields

\* a handle was dropped on a resolver that has fields and several requirements
C4_Witness ==
    /\ last.op = "drop"
    /\ Len(resolver.req) >= 2
    /\ DOMAIN resolver.fields # {}

\* what one step of the loop of user_resolve_entry does to the resolver
C5_LoopStep ==
    /\ loop'.state = "running" =>
          loop'.iters + Len(resolver'.req) + (IF key'.some THEN 1 ELSE 0) = loop'.n0
    /\ (loop.state = "running" /\ last'.op = "insert") =>
          /\ snap.some
          /\ last'.name = Last(snap.val.req)
          /\ resolver'.req = SubSeq(snap.val.req, 1, Len(snap.val.req) - 1)
          /\ last'.name \in DOMAIN resolver'.fields
          /\ resolver'.fields[last'.name] = last'.value
    /\ (loop.state = "running" /\ loop'.state = "done") =>
          /\ last'.result = "None"
          /\ loop'.iters = loop'.n0
          /\ resolver'.req = <<>>
    /\ (loop.state = "done" /\ last'.op = "resolve") =>
          last'.result = "Ok"

\* C5: the loop of user_resolve_entry terminates after as many iterations as
\* there were requirements: each insert removes exactly the popped name from
\* the list and stores the value under it, next_required_entry() returns None
\* when the iteration count has reached the initial count, and the resolve()
\* that follows succeeds.
C5_PromptLoopTerminates ==
    /\ [][C5_LoopStep]_vars
    /\ (loop.state = "running") ~> (loop.state \in {"done", "cancelled"})

\* the loop ran for at least two iterations and the resolver then resolved
C5_Witness ==
    /\ loop.state = "done" /\ loop.iters >= 2
    /\ last.op = "resolve" /\ last.result = "Ok"

\* C6: required_fields().count() never increases across set_field or a typed
\* setter.
C6_SetFieldNeverAddsRequirement ==
    [][ last'.op \in {"set_field", "typed_setter"} =>
          Len(resolver'.req) <= Len(resolver.req) ]_vars

\* a typed setter was called while requirements stay open
C6_Witness ==
    /\ last.op = "typed_setter"
    /\ resolver.req # <<>>
    /\ last.name \in DOMAIN resolver.fields

\* C7: after set_field(name, value) the map holds value under the lowercased
\* name and every other stored field is as it was.
C7_SetFieldStoresLowercased ==
    [][ last'.op = "set_field" =>
          LET n == to_lowercase(last'.name) IN
          /\ DOMAIN resolver'.fields = (DOMAIN resolver.fields) \cup {n}
          /\ resolver'.fields[n] = last'.value
          /\ \A k \in (DOMAIN resolver.fields) \ {n} :
                 resolver'.fields[k] = resolver.fields[k] ]_vars

\* set_field("Title", v) was called and v is stored under "title" next to
\* another field
C7_Witness ==
    /\ last.op = "set_field" /\ last.name = FieldName.Title
    /\ FieldName.title \in DOMAIN resolver.fields
    /\ resolver.fields[FieldName.title] = last.value
    /\ FieldName.Title \notin DOMAIN resolver.fields
    /\ Cardinality(DOMAIN resolver.fields) >= 2

\* C8: set_field(n, v) removes n from the remaining-required list, whether n
\* was seeded from the catalog or added by add_required_fields.
C8_SetFieldRemovesRequirement ==
    [][ last'.op = "set_field" => ~Contains(resolver'.req, last'.name) ]_vars

\* the names of `names` that are neither set nor pending in r, each once, in
\* the order of their first occurrence
NewNames(names, r) ==
    LET keep(i) == /\ names[i] \notin DOMAIN r.fields
                   /\ ~Contains(r.req, names[i])
                   /\ \A j \in 1..(i-1) : names[j] # names[i]
        F[i \in 0..Len(names)] ==
            IF i = 0 THEN <<>>
            ELSE IF keep(i) THEN Append(F[i-1], names[i]) ELSE F[i-1]
    IN  F[Len(names)]

\* C9: add_required_fields(names) appends exactly the names that are neither
\* set nor pending, in the order given and once each; pending names keep their
\* place and the list holds no name twice.
C9_AddRequiredFieldsAppendsNewOnly ==
    [][ last'.op = "add_required_fields" =>
          /\ resolver'.req = resolver.req \o NewNames(last'.names, resolver)
          /\ NoDuplicates(resolver'.req)
          /\ resolver'.fields = resolver.fields ]_vars

\* add_required_fields was called with the same new name twice
C9_Witness ==
    /\ last.op = "add_required_fields"
    /\ \E i, j \in DOMAIN last.names :
           i # j /\ last.names[i] = last.names[j] /\ Contains(resolver.req, last.names[i])

\* C10: after set_fields_from_entry(entry) every field of entry is stored
\* under the very name it has in entry with the same value, the other stored
\* fields are as they were, and the remaining requirements are the previous
\* ones without the names of entry's fields.
C10_SetFieldsFromEntryVerbatim ==
    [][ last'.op = "set_fields_from_entry" =>
          LET e     == last'.entry.val
              names == (DOMAIN e.required) \cup (DOMAIN e.optional)
          IN  /\ DOMAIN resolver'.fields = (DOMAIN resolver.fields) \cup names
              /\ \A n \in DOMAIN e.required : resolver'.fields[n] = e.required[n]
              /\ \A n \in DOMAIN e.optional : resolver'.fields[n] = e.optional[n]
              /\ \A n \in (DOMAIN resolver.fields) \ names :
                     resolver'.fields[n] = resolver.fields[n]
              /\ resolver'.req = SelectSeq(resolver.req, LAMBDA q : q \notin names) ]_vars

\* a BookChapter resolver was fed a Book entry and requires only chapter
C10_Witness ==
    /\ last.op = "set_fields_from_entry"
    /\ last.entry.val.kind = Kind("Book")
    /\ resolver.target = Kind("BookChapter")
    /\ resolver.req = <<FieldName.chapter>>

\* the text of s without its whitespace characters
WithoutWhitespace(s) ==
    LET F[i \in 0..Len(s)] ==
            IF i = 0 THEN <<>>
            ELSE IF s[i] \in {" ", "\t", "\n", "\r"} THEN F[i-1] ELSE Append(F[i-1], s[i])
    IN  F[Len(s)]

\* the citation key the resolver r stands for: the pre-chosen key, otherwise
\* author without whitespace (or "Unknown") followed by year (or "year")
ExpectedCite(r) ==
    IF r.cite.some
    THEN r.cite.val
    ELSE (IF FieldName.author \in DOMAIN r.fields
          THEN WithoutWhitespace(r.fields[FieldName.author]) ELSE CiteKey.Unknown)
         \o (IF FieldName.year \in DOMAIN r.fields THEN r.fields[FieldName.year] ELSE FieldName.year)

\* C11: cite() changes nothing in the resolver and returns the pre-chosen key,
\* otherwise author without whitespace followed by year; a resolve() that
\* succeeds right after it gives the entry that very citation key.
C11_CiteIsKeyOfResolvedEntry ==
    [][ /\ last'.op = "cite" =>
              /\ resolver' = resolver /\ alive' = alive /\ key' = key
              /\ last'.value = ExpectedCite(resolver)
        /\ (last'.op = "resolve" /\ last'.result = "Ok") =>
              /\ entry'.val.cite = ExpectedCite(resolver)
              /\ last.op = "cite" => entry'.val.cite = last.value ]_vars

\* an entry resolved without a pre-chosen key from an author that holds
\* whitespace: its key is the author without the whitespace
C11_Witness ==
    /\ last.op = "resolve" /\ last.result = "Ok"
    /\ entry.val.kind = Kind("Unpublished")
    /\ entry.val.required[FieldName.author] = <<"y", " ", "z">>
    /\ entry.val.cite = <<"y", "z", "y", "e", "a", "r">>

----------------------------------------------------------------------------
(* Properties of a batch *)

\* e is the entry that the resolver r stands for: its kind, its citation key
\* and every field it holds
IsEntryOf(e, r) ==
    /\ e.kind = r.target
    /\ e.cite = ExpectedCite(r)
    /\ (DOMAIN e.required) \cup (DOMAIN e.optional) = DOMAIN r.fields
    /\ \A n \in DOMAIN r.fields :
         (IF n \in DOMAIN e.required THEN e.required[n] ELSE e.optional[n]) = r.fields[n]

\* C12: try_resolve on n resolvers of which k have no remaining requirement
\* returns the Biblio iff k = n; otherwise it returns a BiblioResolver that holds
\* exactly the k finished entries and exactly the n-k resolvers that still miss
\* fields, each of those resolvers unchanged.
C12_TryResolvePartitions ==
    [][ blast'.op = "try_resolve" =>
          LET batch   == blast'.batch
              done    == SelectSeq(batch, LAMBDA r : r.req = <<>>)
              missing == SelectSeq(batch, LAMBDA r : r.req # <<>>)
          IN  /\ (stage' = "Ok") <=> (Len(done) = Len(batch))
              /\ (stage' # "Ok") =>
                    /\ stage' = "Err"
                    /\ Len(biblio_resolver'.entries) = Len(done)
                    /\ \A i \in DOMAIN done :
                         IsEntryOf(biblio_resolver'.entries[i], done[i])
                    /\ biblio_resolver'.resolvers = missing ]_vars

\* a batch of three, the one in the middle finished, the other two not
C12_Witness ==
    /\ blast.op = "try_resolve" /\ stage = "Err"
    /\ Len(blast.batch) = 3
    /\ blast.batch[2].req = <<>>
    /\ Len(biblio_resolver.entries) = 1
    /\ biblio_resolver.resolvers = <<blast.batch[1], blast.batch[3]>>
    /\ blast.batch[1] # blast.batch[3]

\* C13: resolve() called again on a BiblioResolver that a resolve attempt has
\* just returned, with no field changed in between, returns a BiblioResolver
\* with the same finished entries and the same outstanding resolvers, however
\* often it is repeated.
C13_RetryReproducesPartition ==
    [][ (stage = "Err" /\ blast.op \in {"try_resolve", "resolve"} /\ blast'.op = "resolve") =>
          /\ stage' = "Err"
          /\ biblio_resolver'.entries = biblio_resolver.entries
          /\ biblio_resolver'.resolvers = biblio_resolver.resolvers ]_vars

\* a second retry in a row, on one finished entry and two different resolvers
C13_Witness ==
    /\ stage = "Err" /\ blast.op = "resolve" /\ blast.prev = "resolve"
    /\ Len(biblio_resolver.entries) = 1
    /\ Len(biblio_resolver.resolvers) = 2
    /\ biblio_resolver.resolvers[1] # biblio_resolver.resolvers[2]

\* C14 as claimed: whenever a BiblioResolver is held, after any sequence of
\* try_resolve, resolve, edits through unresolved() and checked_remove, its list
\* of outstanding resolvers holds at least one resolver.
C14_AlwaysOneOutstanding ==
    stage = "Err" => Len(biblio_resolver.resolvers) >= 1

\* C14: a BiblioResolver that is held has at least one outstanding resolver
\* unless checked_remove has taken a resolver out of it since the last resolve
\* attempt; try_resolve, resolve and edits through unresolved() never leave
\* the list empty.
C14_OneOutstandingUnlessRemoved ==
    (stage = "Err" /\ ~history.taken) => Len(biblio_resolver.resolvers) >= 1

\* a BiblioResolver with a finished entry, an edited resolver and nothing
\* removed from it
C14_Witness ==
    /\ stage = "Err" /\ ~history.taken
    /\ blast.op = "unresolved"
    /\ Len(biblio_resolver.entries) >= 1
    /\ Len(biblio_resolver.resolvers) = 1
    /\ biblio_resolver.resolvers[1].req = <<>>

\* C15: a resolve() retry leaves the finished entries alone: the finished list
\* after a retry that returns Err starts with the finished list before it,
\* unchanged, and what follows was built from resolvers that were outstanding;
\* a retry that returns the Biblio puts every finished entry's key into it and
\* nothing but finished entries and entries built from outstanding resolvers.
C15_RetryKeepsFinishedPrefix ==
    [][ blast'.op = "resolve" =>
          LET old         == biblio_resolver.entries
              outstanding == biblio_resolver.resolvers
              FromOutstanding(e) ==
                  \E i \in DOMAIN outstanding :
                      outstanding[i].req = <<>> /\ IsEntryOf(e, outstanding[i])
          IN  /\ (stage' = "Err") =>
                    LET now == biblio_resolver'.entries IN
                    /\ Len(now) >= Len(old)
                    /\ SubSeq(now, 1, Len(old)) = old
                    /\ \A j \in (Len(old) + 1) .. Len(now) : FromOutstanding(now[j])
              /\ (stage' = "Ok") =>
                    /\ \A i \in DOMAIN old : old[i].cite \in DOMAIN biblio'.entries
                    /\ \A c \in DOMAIN biblio'.entries :
                         \/ \E i \in DOMAIN old : old[i] = biblio'.entries[c]
                         \/ FromOutstanding(biblio'.entries[c]) ]_vars

\* a retry that found one finished entry, added another behind it and still
\* returned Err
C15_Witness ==
    /\ stage = "Err" /\ blast.op = "resolve"
    /\ blast.before = 1
    /\ Len(biblio_resolver.entries) = 2
    /\ biblio_resolver.entries[1] # biblio_resolver.entries[2]

\* C16: the Biblio that comes out of a batch is dirty exactly when an earlier
\* resolve attempt on that batch returned the BiblioResolver; a Biblio returned
\* by the first try_resolve is clean.
C16_DirtyIffAnAttemptFailed ==
    [][ (stage' = "Ok" /\ blast'.op \in {"try_resolve", "resolve"}) =>
          /\ biblio'.dirty = history.errs
          /\ (blast'.op = "try_resolve") => ~biblio'.dirty ]_vars

\* a Biblio that came out of a retry, after an attempt that had returned Err
C16_Witness ==
    /\ stage = "Ok" /\ blast.op = "resolve"
    /\ history.origin = "try_resolve" /\ history.errs
    /\ biblio.dirty
    /\ Cardinality(DOMAIN biblio.entries) >= 2

\* the sequence s without its p-th item, the others in their order
Without(s, p) == [ i \in 1 .. (Len(s) - 1) |-> IF i < p THEN s[i] ELSE s[i + 1] ]

\* C17: checked_remove(index) numbers the finished entries first and the
\* outstanding resolvers after them: with e entries and r resolvers it removes
\* and returns Some(Ok(entry index)) for index < e, Some(Err(resolver index-e))
\* for e <= index < e+r, and returns None and changes nothing for index >= e+r;
\* the items that stay keep their order.
C17_CheckedRemoveIndexesEntriesFirst ==
    [][ blast'.op = "checked_remove" =>
          LET entries   == biblio_resolver.entries
              resolvers == biblio_resolver.resolvers
              e         == Len(entries)
              r         == Len(resolvers)
              index     == blast'.index
          IN  /\ biblio_resolver'.failed = biblio_resolver.failed
              /\ (index < e) =>
                    /\ blast'.tag = "Ok" /\ blast'.item = Some(entries[index + 1])
                    /\ biblio_resolver'.entries = Without(entries, index + 1)
                    /\ biblio_resolver'.resolvers = resolvers
              /\ (e <= index /\ index < e + r) =>
                    /\ blast'.tag = "Err" /\ blast'.item = Some(resolvers[index - e + 1])
                    /\ biblio_resolver'.resolvers = Without(resolvers, index - e + 1)
                    /\ biblio_resolver'.entries = entries
              /\ (index >= e + r) =>
                    /\ blast'.tag = "None" /\ blast'.item = None
                    /\ biblio_resolver' = biblio_resolver ]_vars

\* index 1 with one finished entry and two resolvers took the first resolver
\* and left the second
C17_Witness ==
    /\ stage = "Err" /\ blast.op = "checked_remove"
    /\ blast.before = 1 /\ blast.index = 1 /\ blast.tag = "Err"
    /\ Len(biblio_resolver.entries) = 1
    /\ Len(biblio_resolver.resolvers) = 1
    /\ biblio_resolver.resolvers[1] # blast.item.val

\* C18: insert(entry) stores the entry under its own citation key, in place of
\* an entry already stored under exactly that key, leaves every other entry as
\* it was, and sets the dirty flag.
C18_InsertStoresUnderOwnKey ==
    [][ blast'.op = "insert" =>
          LET e == blast'.item.val IN
          /\ DOMAIN biblio'.entries = (DOMAIN biblio.entries) \cup {e.cite}
          /\ biblio'.entries[e.cite] = e
          /\ \A c \in (DOMAIN biblio.entries) \ {e.cite} :
               biblio'.entries[c] = biblio.entries[c]
          /\ biblio'.dirty ]_vars

\* an insert into a clean Biblio that replaced the entry under k1 while the
\* entry under K1 stayed
C18_Witness ==
    /\ stage = "Ok" /\ blast.op = "insert" /\ blast.prev = "dirty"
    /\ blast.cite = CiteKey.cite
    /\ blast.before = Cardinality(DOMAIN biblio.entries)
    /\ biblio.entries[CiteKey.cite] = ManualEntry(CiteKey.cite, <<"y">>)
    /\ CiteKey.K1 \in DOMAIN biblio.entries
    /\ biblio.dirty

\* the upper-case letters and, at the same positions, the lower-case ones
UpperCase == <<"A","B","C","D","E","F","G","H","I","J","K","L","M",
               "N","O","P","Q","R","S","T","U","V","W","X","Y","Z">>
LowerCase == <<"a","b","c","d","e","f","g","h","i","j","k","l","m",
               "n","o","p","q","r","s","t","u","v","w","x","y","z">>

\* a and b are the same text up to the case of their letters
EqIgnoreCase(a, b) ==
    /\ Len(a) = Len(b)
    /\ \A i \in DOMAIN a :
         \/ a[i] = b[i]
         \/ \E n \in DOMAIN UpperCase : {a[i], b[i]} = {UpperCase[n], LowerCase[n]}

\* C19: remove(cite) matches keys ignoring case: it returns true iff a stored
\* key equals cite up to case, afterwards no stored key does, entries under
\* other keys are unchanged, and the dirty flag is set exactly when something
\* was removed and otherwise stays as it was.
C19_RemoveIgnoresCase ==
    [][ blast'.op = "remove" =>
          LET c    == blast'.cite
              hits == { k \in DOMAIN biblio.entries : EqIgnoreCase(k, c) }
          IN  /\ blast'.flag = (hits # {})
              /\ DOMAIN biblio'.entries = (DOMAIN biblio.entries) \ hits
              /\ \A k \in DOMAIN biblio'.entries : biblio'.entries[k] = biblio.entries[k]
              /\ biblio'.dirty = (biblio.dirty \/ hits # {}) ]_vars

\* remove("K1") from a clean Biblio took out both k1 and K1, left k2 and set
\* the flag
C19_Witness ==
    /\ stage = "Ok" /\ blast.op = "remove" /\ blast.prev = "dirty"
    /\ blast.cite = CiteKey.K1 /\ blast.flag
    /\ blast.before = Cardinality(DOMAIN biblio.entries) + 2
    /\ CiteKey.k2 \in DOMAIN biblio.entries
    /\ biblio.dirty

\* C20: dirty() is test-and-reset: on a Biblio built by new, after any sequence
\* of insert, remove and dirty calls, dirty() returns true iff an insert, or a
\* remove that removed something, happened since the previous dirty() call or
\* since construction; a dirty() right after a dirty() returns false.
C20_DirtyIsTestAndReset ==
    [][ (blast'.op = "dirty" /\ history.origin = "new") =>
          /\ blast'.flag = history.mutated
          /\ (blast.op = "dirty") => ~blast'.flag
          /\ ~biblio'.dirty ]_vars

\* on a Biblio built by new, dirty() returned true right after a remove and
\* left the flag clear
C20_Witness ==
    /\ stage = "Ok" /\ history.origin = "new"
    /\ blast.op = "dirty" /\ blast.prev = "remove" /\ blast.flag
    /\ ~biblio.dirty /\ ~history.mutated
    /\ DOMAIN biblio.entries # {}

----------------------------------------------------------------------------
(* Properties of the entry map and of field lookup *)

\* C21: every key of a Biblio's entry map is the citation key of the entry
\* stored under it, however the Biblio was built (new, try_resolve, resolve)
\* and after every insert and remove.
C21_KeysAreCiteKeys ==
    stage = "Ok" => \A k \in DOMAIN biblio.entries : biblio.entries[k].cite = k

\* a Biblio that came out of a retried resolve holds k1 and K1 after an
\* insert and a remove
C21_Witness ==
    /\ stage = "Ok" /\ history.origin = "try_resolve" /\ history.errs
    /\ history.mutated
    /\ blast.op = "remove" /\ blast.flag
    /\ {CiteKey.cite, CiteKey.K1} \subseteq DOMAIN biblio.entries

\* the names under which an entry stores its fields
StoredNames(e) == (DOMAIN e.required) \cup (DOMAIN e.optional)

\* the value an entry stores under name n
StoredValue(e, n) == IF n \in DOMAIN e.required THEN e.required[n] ELSE e.optional[n]

\* C23: looking a field up by name ignores case while the stored name keeps
\* its casing: for every field a finished entry stores under a name n, whatever
\* the casing of n, find_field with any case variant of n returns that
\* field's value.
C23_FindFieldIgnoresCase ==
    [][ last'.op = "find_field" =>
          \A n \in StoredNames(entry.val) :
              EqIgnoreCase(n, last'.name) =>
                  /\ last'.result = "Some"
                  /\ last'.value = StoredValue(entry.val, n) ]_vars

\* C22: contains_field(name, predicate) returns true iff some entry has a
\* field called name whose value satisfies predicate; so it returns false for
\* an empty Biblio, when no entry has the field, and when every entry that has
\* it fails the predicate.
C22_ContainsFieldIffSomeEntry ==
    [][ blast'.op = "contains_field" =>
          blast'.flag =
              (\E c \in DOMAIN biblio.entries :
                 \E n \in StoredNames(biblio.entries[c]) :
                    /\ EqIgnoreCase(n, blast'.name)
                    /\ StoredValue(biblio.entries[c], n) \in blast'.predicate) ]_vars

----------------------------------------------------------------------------
(* Properties of the format *)

\* C24: for a Biblio built from complete field sets, whatever the kinds of
\* its entries, parse(compose(c)) resolves with no field missing to a Biblio
\* with the citation keys of c and, under each key, the same kind and the
\* same field names and values.
C24_RoundTrip ==
    (clast.op = "parse" /\ clast.origin = "compose") =>
        /\ parsed.tag = "Ok"
        /\ parsed.res.tag = "Ok"
        /\ LET c == clast.biblio.entries
               d == parsed.res.biblio.entries
           IN  /\ DOMAIN d = DOMAIN c
               /\ \A k \in DOMAIN c :
                     /\ d[k].kind = c[k].kind
                     /\ d[k].required = c[k].required
                     /\ d[k].optional = c[k].optional

\* C25: parse("") yields Ok(Ok(c)) with c an empty Biblio, and compose of an
\* empty Biblio yields the empty string.
C25_EmptyInput ==
    /\ (clast.op = "parse" /\ clast.source = <<>>) =>
           /\ parsed.tag = "Ok"
           /\ parsed.res.tag = "Ok"
           /\ DOMAIN parsed.res.biblio.entries = {}
    /\ (clast.op = "compose" /\ DOMAIN clast.biblio.entries = {}) => text = <<>>

\* the empty Biblio was composed, to the empty string, and that was parsed
\* to an empty Biblio
C25_Witness ==
    /\ clast.op = "parse" /\ clast.origin = "compose"
    /\ DOMAIN clast.biblio.entries = {}
    /\ text = <<>> /\ clast.source = <<>>
    /\ parsed.tag = "Ok" /\ parsed.res.tag = "Ok"

\* the required names that the fields of a record of the text leave unset
MissingNames(rec) ==
    { n \in Range(required_fields(EntryKind_from(rec.entry_type))) :
        \A i \in DOMAIN rec.fields :
            n # (IF rec.fields[i].name = FieldName.booktitle THEN FieldName.book_title
                 ELSE rec.fields[i].name) }

\* C26: the two failure channels of parse are never conflated: a non-empty
\* text from which no record can be read yields Err(Deserialize); a text whose
\* records are well formed yields Ok(..) even when records miss required
\* fields, and then exactly the incomplete records are the outstanding
\* resolvers of the BiblioResolver returned, in the order of the text.
C26_FailureChannels ==
    clast.op = "parse" =>
        LET recs       == Bibliography_parse(clast.source)
            incomplete == SelectSeq(recs.val, LAMBDA rec : MissingNames(rec) # {})
        IN  /\ (clast.source # <<>> /\ (~recs.some \/ recs.val = <<>>)) =>
                   parsed.tag = "Deserialize"
            /\ (recs.some /\ recs.val # <<>>) =>
                   /\ parsed.tag = "Ok"
                   /\ parsed.res.tag = (IF incomplete = <<>> THEN "Ok" ELSE "Err")
                   /\ [ i \in DOMAIN parsed.res.resolver.resolvers |->
                           parsed.res.resolver.resolvers[i].cite ]
                        = [ i \in DOMAIN incomplete |-> Some(incomplete[i].key) ]

\* a text with a complete record and one that lacks a required field was
\* parsed to Ok(Err(..)) with one finished entry and one outstanding resolver
C26_Witness ==
    /\ clast.op = "parse" /\ clast.origin = "text" /\ clast.source = Texts.two
    /\ parsed.tag = "Ok" /\ parsed.res.tag = "Err"
    /\ Len(parsed.res.resolver.entries) = 1
    /\ Len(parsed.res.resolver.resolvers) = 1
    /\ parsed.res.resolver.resolvers[1].req = <<FieldName.year>>

\* the positions of the header lines of a composed text, and the label of
\* the header at position i
HeaderPositions(t) == { i \in DOMAIN t : t[i] = "%" }
LabelAt(t, i) == SubSeq(t, i + 2, FindFrom(t, {"\n"}, i) - 1)

\* the positions of the records, and the label and the key of the record at j
RecordPositions(t) == { j \in DOMAIN t : t[j] = "@" }
RecordLabel(t, j) == SubSeq(t, j + 1, FindFrom(t, {"{"}, j) - 1)
RecordKey(t, j) == SubSeq(t, FindFrom(t, {"{"}, j) + 1, FindFrom(t, {","}, j) - 1)

\* the header under which the record at j stands
HeaderOf(t, j) ==
    CHOOSE h \in HeaderPositions(t) :
        /\ h < j
        /\ \A g \in HeaderPositions(t) : g < j => g <= h

\* there is one group for each kind label, in the order of the labels
GroupsSorted(t, c) ==
    /\ { LabelAt(t, h) : h \in HeaderPositions(t) }
         = { compose_variant(c[k]) : k \in DOMAIN c }
    /\ \A g, h \in HeaderPositions(t) : g < h => StrLess(LabelAt(t, g), LabelAt(t, h))

\* every entry stands once, under the header of its kind label
GroupsComplete(t, c) ==
    /\ \A j \in RecordPositions(t) :
          /\ \E h \in HeaderPositions(t) : h < j
          /\ RecordLabel(t, j) = LabelAt(t, HeaderOf(t, j))
          /\ RecordKey(t, j) \in DOMAIN c
          /\ compose_variant(c[RecordKey(t, j)]) = RecordLabel(t, j)
    /\ \A k \in DOMAIN c :
          Cardinality({ j \in RecordPositions(t) : RecordKey(t, j) = k }) = 1

\* an empty line stands before every header but the first
GroupsSeparated(t) ==
    \A h \in HeaderPositions(t) :
        (\E g \in HeaderPositions(t) : g < h) => (t[h - 1] = "\n" /\ t[h - 2] = "\n")

\* C27: the composed text is one group for each kind label: a group starts
\* with its "% <kind>" header line, which every entry of that kind follows;
\* the groups stand in the lexicographic order of their labels, whatever the
\* order in which the entries were visited; and a blank line separates every
\* two consecutive groups, however many entries each holds.
C27_ComposeGroups ==
    (clast.op = "compose" /\ clast.origin = "compose") =>
        /\ GroupsSorted(text, clast.biblio.entries)
        /\ GroupsComplete(text, clast.biblio.entries)
        /\ GroupsSeparated(text)

\* the last chunk of the run that the verbatim chunk i begins: chunk i itself
\* unless it ends with the escape, else the end of the second of the
\* (plain, verbatim) pairs that follow it, a pair ending where the run of its
\* verbatim chunk ends
RECURSIVE RunEnd(_, _)
PairEnd(c, e) ==
    IF e + 1 > Len(c) THEN e
    ELSE IF e + 2 > Len(c) THEN e + 1
    ELSE RunEnd(c, e + 2)

RunEnd(c, i) ==
    IF ends_with_escape(c[i].text) THEN PairEnd(c, PairEnd(c, i)) ELSE i

\* the spans that the chunks from i on should give
RECURSIVE ExpectedParts(_, _)
ExpectedParts(c, i) ==
    IF i > Len(c)
    THEN <<>>
    ELSE IF c[i].verbatim
    THEN <<Verbatim(Concat([ k \in 1..(RunEnd(c, i) - i + 1) |-> c[i + k - 1].text ]))>>
         \o ExpectedParts(c, RunEnd(c, i) + 1)
    ELSE <<Normal(c[i].text)>> \o ExpectedParts(c, i + 1)

\* C28: when a verbatim chunk ends with the escape character '/', the chunks
\* that follow are appended to it as raw text, in (plain, verbatim) pairs, up
\* to and including the verbatim chunk of the second pair, recursing when an
\* appended verbatim chunk itself ends with '/'; the result is one verbatim
\* span, and the chunks after the merged run are not absorbed. The chunks
\* V"(HTTP/", N"1", V".", N"1", V")" become the one verbatim span "(HTTP/1.1)".
C28_VerbatimMerge ==
    clast.op = "from_chunks" =>
        /\ clast.parts = ExpectedParts(clast.chunks, 1)
        /\ clast.qs = from_parts(clast.parts)
        /\ clast.chunks = HttpChunks =>
               /\ clast.parts = <<Verbatim(<<"(","H","T","T","P","/","1",".","1",")">>)>>
               /\ map_quoted(clast.qs, "bibtex_esc") = <<"{","(","H","T","T","P","/","1",".","1",")","}">>

\* five chunks were merged into one verbatim span and the normal chunk
\* after them was left as it is
C28_Witness ==
    /\ clast.op = "from_chunks"
    /\ Len(clast.chunks) = 6
    /\ clast.chunks[1] = Verbatim(<<"a", "/">>)
    /\ clast.parts = << Verbatim(<<"a", "/", "1", "b", "1", "b">>), Normal(<<"1">>) >>

\* the names of the fields that the parsed text holds for the record with
\* key k, be it a finished entry or an outstanding resolver
ParsedNames(res, k) ==
    IF res.tag = "Ok"
    THEN StoredNames(res.biblio.entries[k])
    ELSE UNION ({ StoredNames(res.resolver.entries[i]) :
                    i \in { j \in DOMAIN res.resolver.entries :
                              res.resolver.entries[j].cite = k } }
                \cup { DOMAIN res.resolver.resolvers[i].fields :
                         i \in { j \in DOMAIN res.resolver.resolvers :
                                   res.resolver.resolvers[j].cite = Some(k) } })

\* C29: the renaming between an internal field name joined with underscores
\* and its external name without them is symmetric: for every internal field
\* name n, a field named n that is composed and parsed back is named n again
\* (book_title becomes booktitle and booktitle becomes book_title).
C29_RenamingSymmetric ==
    (clast.op = "parse" /\ clast.origin = "compose" /\ parsed.tag = "Ok") =>
        \A k \in DOMAIN clast.biblio.entries :
            ParsedNames(parsed.res, k) = StoredNames(clast.biblio.entries[k])

\* the kind that the first record of a text declares
DeclaredKind(t) == RecordLabel(t, FindFrom(t, {"@"}, 1))

\* the names of the kinds of the catalog as records declare them
CatalogNames ==
    { TypeName.article, TypeName.book, TypeName.booklet, TypeName.inbook, TypeName.incollection, TypeName.inproceedings,
      TypeName.manual, TypeName.mastersthesis, TypeName.phdthesis, TypeName.proceedings, TypeName.techreport,
      TypeName.unpublished }

\* the text at hand holds one record, of a kind outside the catalog
OneRecordOutsideCatalog(t) ==
    /\ Cardinality(RecordPositions(t)) = 1
    /\ to_lowercase(DeclaredKind(t)) \notin CatalogNames

\* C30: a record whose declared kind is not in the catalog becomes a resolver
\* of kind Other(declared name) whose only requirement is title, and once
\* resolved it is composed with "@<declared name>", the name unchanged.
C30_CatalogFallback ==
    (clast.origin = "text" /\ parsed.tag = "Ok" /\ OneRecordOutsideCatalog(clast.source)) =>
        LET kind == KindOther(DeclaredKind(clast.source)) IN
        /\ parsed.res.tag = "Err" =>
               /\ parsed.res.resolver.resolvers[1].target = kind
               /\ parsed.res.resolver.resolvers[1].req = <<FieldName.title>>
        /\ parsed.res.tag = "Ok" =>
               \A k \in DOMAIN parsed.res.biblio.entries :
                   /\ parsed.res.biblio.entries[k].kind = kind
                   /\ DOMAIN parsed.res.biblio.entries[k].required = {FieldName.title}
        /\ clast.op = "compose" =>
               \A j \in RecordPositions(text) :
                   RecordLabel(text, j) = DeclaredKind(clast.source)

----------------------------------------------------------------------------
(* Properties of the quoted string *)

Constructors == {"new", "quote", "from_quoted", "from_parts"}

\* the marker list is sorted
MarkersSorted(qs) ==
    \A i, j \in DOMAIN qs.markers : i <= j => qs.markers[i] <= qs.markers[j]

\* every marker is a byte offset into the buffer at which a slice can start or end
MarkersValid(qs) ==
    \A i \in DOMAIN qs.markers : is_char_boundary(qs.value, qs.markers[i])

\* every verbatim region has a start and an end
MarkersEven(qs) == Len(qs.markers) % 2 = 0

\* C31: every value that new, quote, from_quoted or from_parts returns has a
\* marker list that is sorted, holds only valid byte offsets into the buffer
\* and has even length.
C31_MarkersWellFormed ==
    clast.op \in Constructors =>
        /\ MarkersSorted(clast.qs)
        /\ MarkersValid(clast.qs)
        /\ MarkersEven(clast.qs)

\* the text without the characters that the pattern matches
Kept(t, pattern) == SelectSeq(t, LAMBDA c : c \notin pattern)

\* how many of the first i characters of the text the pattern matches
Removed(t, pattern, i) == Cardinality({ j \in 1..i : t[j] \in pattern })

\* C32: from_quoted(text, pattern) stores the text without the characters that
\* the pattern matches and one marker for each of them, the byte offset in the
\* stored buffer at which the character stood, for texts with characters of
\* several bytes too.
C32_FromQuotedOffsets ==
    clast.op = "from_quoted" =>
        LET t == clast.source
            p == clast.pattern
        IN  /\ clast.qs.value = Kept(t, p)
            /\ Len(clast.qs.markers) = Removed(t, p, Len(t))
            /\ \A i \in DOMAIN t :
                 t[i] \in p =>
                     clast.qs.markers[Removed(t, p, i)] = len(Kept(SubSeq(t, 1, i), p))

\* the parts in order, the verbatim ones handed to f one by one
MappedParts(parts, f) ==
    Concat([ i \in DOMAIN parts |->
               IF parts[i].verbatim THEN call(f, parts[i].text) ELSE parts[i].text ])

\* C33: from_parts(parts).map_quoted(f) is the concatenation over the parts,
\* in order, of f(text) for a verbatim part and of text for a plain part, and
\* the empty string when the whole buffer is empty.
C33_MapQuotedOfParts ==
    (clast.op = "map_quoted" /\ clast.origin = "from_parts") =>
        clast.mapped = IF clast.qs.value = <<>>
                       THEN <<>>
                       ELSE MappedParts(clast.parts, clast.f)

\* two verbatim parts side by side, between plain parts, went through f apart
C33_Witness ==
    /\ clast.op = "map_quoted" /\ clast.origin = "from_parts"
    /\ clast.f = "bibtex_esc"
    /\ clast.parts = << Verbatim(<<"b">>), Verbatim(<<"ß">>), Normal(<<"a">>) >>
    /\ clast.mapped = <<"{", "b", "}", "{", "ß", "}", "a">>

\* the braces of the text are balanced and not nested: they come in turn,
\* an opening one first and a closing one last
BalancedFlat(t) ==
    LET braces == SelectSeq(t, LAMBDA c : c \in {"{", "}"}) IN
    /\ Len(braces) % 2 = 0
    /\ \A i \in DOMAIN braces : braces[i] = IF i % 2 = 1 THEN "{" ELSE "}"

\* C34: for a text whose braces are balanced and not nested,
\* from_quoted(text, ['{', '}']).map_quoted(|s| "{" + s + "}") is the text.
C34_BraceRoundTrip ==
    ( /\ clast.op = "map_quoted" /\ clast.origin = "from_quoted"
      /\ clast.pattern = {"{", "}"} /\ clast.f = "bibtex_esc"
      /\ BalancedFlat(clast.source) ) =>
        clast.mapped = clast.source

\* C35: two values are equal exactly when their buffers hold the same text,
\* whatever their markers: new("foo") equals quote("foo").
C35_EqualityOverBuffer ==
    clast.op = "eq" => (clast.equal <=> clast.qs.value = clast.other.value)

----------------------------------------------------------------------------
(* Properties of the requirements of a resolver *)

\* every name the kind requires is still awaited or already stored
RequiredAccountedFor(r) ==
    \A n \in Range(required_fields(r.target)) : Contains(r.req, n) \/ n \in DOMAIN r.fields

\* every name the kind requires is awaited, stored, or held by the handle that
\* next_required_entry returned and that was neither inserted nor dropped
RequiredAccountedForOrHeld(r, k) ==
    \A n \in Range(required_fields(r.target)) :
        \/ Contains(r.req, n)
        \/ n \in DOMAIN r.fields
        \/ k = Some(n)

\* resolve() that found no requirement left built the entry
ResolveNeverPanics == last.op = "resolve" => last.result # "Panic"

\* C38: in every reachable state of a resolver each name that its kind
\* requires is in the remaining-required list or a key of the fields map;
\* hence resolve(), finding the list empty, never panics on a missing field.
C38_RequiredAccountedFor ==
    /\ alive => RequiredAccountedFor(resolver)
    /\ ResolveNeverPanics

\* C38, amended: each name that the kind requires is in the remaining-required
\* list, a key of the fields map, or held by the handle of next_required_entry
\* that was neither inserted nor dropped; resolve(), finding the list empty
\* while no handle holds a name, never panics on a missing field.
C38_RequiredAccountedForOrHeld ==
    /\ alive => RequiredAccountedForOrHeld(resolver, key)
    /\ (alive /\ ~key.some) => RequiredAccountedFor(resolver)
    /\ ResolveNeverPanics

\* resolve() found no requirement left and built an entry of a kind with
\* several required fields
C38_Witness ==
    /\ last.op = "resolve" /\ last.result = "Ok"
    /\ entry.some /\ entry.val.kind = Kind("BookChapter")
    /\ DOMAIN entry.val.required = Range(required_fields(Kind("BookChapter")))

----------------------------------------------------------------------------
(* Properties of the loop of user_resolve_biblio_resolver *)


\* C36: user_resolve_biblio_resolver terminates when no prompt fails: after one
\* pass that fills every requirement of every resolver of unresolved(), the
\* resolve() that follows returns the Biblio, so the loop body runs exactly
\* once.
C36_LoopRunsOnce ==
    /\ []((BiblioLooping /\ loop.iters >= 1) => (stage = "Ok" /\ loop.iters = 1))
    /\ []((blast.op = "user_resolve_biblio_resolver" /\ blast.tag = "Ok") => blast.index = 1)
    /\ (BiblioLooping ~> ~BiblioLooping)

\* the loop returned the Biblio after its one pass, which filled two resolvers
C36_Witness ==
    /\ blast.op = "user_resolve_biblio_resolver" /\ blast.tag = "Ok" /\ blast.index = 1
    /\ history.origin = "try_resolve" /\ history.errs
    /\ stage = "Ok" /\ Cardinality(DOMAIN biblio.entries) >= 2

----------------------------------------------------------------------------
(* Properties of the order of BiblioResolver::iter                          *)

\* an item of iter() is an outstanding resolver, not a finished entry
IsResolver(item) == "req" \in DOMAIN item

\* C37: the order of iter() is the index order of checked_remove: for every
\* index below the number of items, checked_remove(index) removes and returns
\* the item that iter() yielded at that position before the call, an entry
\* (Ok) exactly when the position is among the finished entries, which come
\* first, and a resolver (Err) after them.
C37_IterOrderIsRemoveOrder ==
    [][ blast'.op = "checked_remove" =>
          LET items == BiblioResolver_iter(biblio_resolver)
              index == blast'.index
              e     == Len(biblio_resolver.entries)
          IN  index < Len(items) =>
                /\ (blast'.tag = "Ok") = (index < e)
                /\ (blast'.tag = "Err") = (index >= e)
                /\ IsResolver(items[index + 1]) = (index >= e)
                /\ blast'.item = Some(items[index + 1])
                /\ BiblioResolver_iter(biblio_resolver') = Without(items, index + 1) ]_vars

\* the last of three items, the second of the resolvers behind one finished
\* entry, has been removed, and the first resolver, a different one, stays
C37_Witness ==
    /\ stage = "Err" /\ blast.op = "checked_remove"
    /\ blast.before = 1 /\ blast.index = 2 /\ blast.tag = "Err"
    /\ Len(BiblioResolver_iter(biblio_resolver)) = 2
    /\ BiblioResolver_iter(biblio_resolver)[2] # blast.item.val

----------------------------------------------------------------------------
(* Properties of a batch with repeated citation keys                        *)

\* C39: when a resolve attempt returns the Biblio, the Biblio holds one entry
\* per distinct citation key of the finished list (the entries finished
\* before, then the entries built from the resolvers of this attempt, in
\* order) and, for each key, the entry that comes last in that list; it holds
\* fewer entries than the list exactly when two of them share a key.
C39_LastOfEachKeyStays ==
    [][ (stage' = "Ok" /\ blast'.op \in {"try_resolve", "resolve", "loop_resolve"}) =>
          LET old         == IF blast'.op = "try_resolve" THEN <<>>
                             ELSE biblio_resolver.entries
              outstanding == IF blast'.op = "try_resolve" THEN blast'.batch
                             ELSE biblio_resolver.resolvers
              finished    == old \o [ i \in DOMAIN outstanding |->
                                         resolve(outstanding[i]).entry.val ]
              keys        == { finished[i].cite : i \in DOMAIN finished }
              LastOf(c)   == CHOOSE i \in DOMAIN finished :
                                 /\ finished[i].cite = c
                                 /\ \A j \in (i + 1) .. Len(finished) : finished[j].cite # c
              repeated    == \E i, j \in DOMAIN finished :
                                 i < j /\ finished[i].cite = finished[j].cite
          IN  /\ DOMAIN biblio'.entries = keys
              /\ \A c \in keys : biblio'.entries[c] = finished[LastOf(c)]
              /\ Cardinality(keys) <= Len(finished)
              /\ repeated <=> (Cardinality(DOMAIN biblio'.entries) < Len(finished)) ]_vars

\* two resolvers with one citation key were given the titles x and y in turn
\* and both resolved: the Biblio holds the one entry with the title y
C39_Witness ==
    /\ stage = "Ok" /\ blast.op = "loop_resolve"
    /\ loop.n0 = 2 /\ blast.before = 0
    /\ DOMAIN biblio.entries = {CiteKey.k2}
    /\ biblio.entries[CiteKey.k2].required[FieldName.title] = <<"y">>

----------------------------------------------------------------------------
(* Properties of the conversion of chunks                                   *)

\* the texts of a sequence of chunks or parts, one after the other
TextOf(chunks) == Concat([ i \in DOMAIN chunks |-> chunks[i].text ])

====
